---- MODULE Spec2Model ----
(***************************************************************************)
(* A model of bvzos: the de-duplicating copy store (copyfiles/             *)
(* versionedfiles.py) on top of the compare session (compare/              *)
(* comparesession.py, canonicalfiles.py, comparefiles.py).                 *)
(*                                                                         *)
(* The filesystem is a function from absolute paths to entries.  A path   *)
(* is a sequence of components; a component is a file or directory name   *)
(* kept in the three parts the store distinguishes: base, version suffix  *)
(* (0 = none) and extension.                                               *)
(***************************************************************************)
EXTENDS Integers, Sequences, FiniteSets, TLC

VARIABLES
    fs,        \* the filesystem: path -> entry
    session,   \* the compare session object in use (bvzos.compare.Session)
    copydescriptors, \* the list of copydescriptors the caller holds
    dest_d,    \* dest_d of the running / last copy_files_deduplicated call
    pc,        \* position of the batch call: "idle", "running", "returned", "raised"
    idx,       \* index of the next copydescriptor of the second loop (line 297)
    output,    \* the output dict of copy_files_deduplicated (line 292)
    ret,       \* what the last call delivered to its caller: value or exception
    fs0,       \* the filesystem as it was when the last call was made
    passes,    \* number of compare passes the caller has driven on the session
    copies,    \* number of calls of copy_file_deduplicated the caller has made
    engine,    \* a call of the checksum engine (compare/comparefiles.py) in progress
    verify,    \* do_verified_copy of the copy calls made
    torn       \* the source files whose copies the medium writes with a wrong byte

vars == <<fs, session, copydescriptors, dest_d, pc, idx, output, ret, fs0, passes, copies,
          engine, verify, torn>>

(***************************************************************************)
(* Bounds of the model.                                                    *)
(***************************************************************************)
\* longest list of copydescriptors handed to copy_files_deduplicated
MaxBatch == 2
\* most pre-existing versions x.v0001.txt .. x.v000N.txt in data_d at the start
MaxPre == 2
\* most compare passes a caller drives on one session
MaxPasses == 1
\* most calls of copy_file_deduplicated a caller makes with its own session
MaxCopies == 2

(***************************************************************************)
(* Names and paths.                                                        *)
(***************************************************************************)
Comp(b) == [base |-> b, ver |-> 0, ext |-> ""]

FileName(b, e) == [base |-> b, ver |-> 0, ext |-> e]

\* ".." inside a relative path
Up == Comp("..")

\* the characters of the directory names used, for str.startswith
CharsOf ==
    ("s" :> <<"s">>) @@ ("s2" :> <<"s", "2">>) @@ ("d" :> <<"d">>) @@
    ("a" :> <<"a">>) @@ ("u" :> <<"u">>) @@ ("sub" :> <<"s", "u", "b">>) @@
    ("x" :> <<"x">>) @@ ("y" :> <<"y">>) @@ ("z" :> <<"z">>) @@
    ("f1" :> <<"f", "1">>) @@ ("f2" :> <<"f", "2">>) @@ ("f3" :> <<"f", "3">>) @@
    ("gone" :> <<"g", "o", "n", "e">>) @@ ("sdir" :> <<"s", "d", "i", "r">>) @@
    (".." :> <<".", ".">>)

IsPrefixSeq(p, s) == Len(p) <= Len(s) /\ SubSeq(s, 1, Len(p)) = p

\* os.path.split(p)[0] and [1]
DirName(p) == SubSeq(p, 1, Len(p) - 1)

BaseName(p) == p[Len(p)]

\* str.startswith on the strings "/c1/c2/.../cn" of two absolute paths: the
\* components before the last one of q are equal, and the last one of q is a
\* character prefix of the component of p at that place.
StartsWith(p, q) ==
    IF q = <<>> THEN TRUE
    ELSE /\ Len(q) <= Len(p)
         /\ SubSeq(p, 1, Len(q) - 1) = DirName(q)
         /\ LET pc_ == p[Len(q)]
                qc == BaseName(q)
            IN  IF qc.ver = 0 /\ qc.ext = ""
                THEN IsPrefixSeq(CharsOf[qc.base], CharsOf[pc_.base])
                ELSE pc_ = qc

\* p lies inside directory q (a proper descendant, by components)
IsDescendant(p, q) == Len(p) > Len(q) /\ SubSeq(p, 1, Len(q)) = q

\* os.path.join(dir, relative) followed by the kernel's walk over ".."
RECURSIVE ApplyRel(_, _)
ApplyRel(base, comps) ==
    IF comps = <<>> THEN base
    ELSE IF Head(comps) = Up
         THEN ApplyRel(IF base = <<>> THEN <<>> ELSE DirName(base), Tail(comps))
         ELSE ApplyRel(Append(base, Head(comps)), Tail(comps))

Min(a, b) == IF a <= b THEN a ELSE b

CommonLen(a, b) ==
    CHOOSE k \in 0..Min(Len(a), Len(b)) :
        /\ SubSeq(a, 1, k) = SubSeq(b, 1, k)
        /\ \A j \in (k + 1)..Min(Len(a), Len(b)) : SubSeq(a, 1, j) # SubSeq(b, 1, j)

\* os.path.relpath(path, start) for two absolute paths
relpath(path, start) ==
    LET k == CommonLen(path, start)
    IN  [i \in 1..(Len(start) - k) |-> Up] \o SubSeq(path, k + 1, Len(path))

(***************************************************************************)
(* The filesystem.                                                         *)
(***************************************************************************)
NoTarget == [abs |-> TRUE, comps |-> <<>>]

RegFile(c) == [kind |-> "file", content |-> c, target |-> NoTarget]

Directory == [kind |-> "dir", content |-> <<>>, target |-> NoTarget]

\* a symbolic link to an absolute path
AbsLink(p) == [kind |-> "link", content |-> <<>>, target |-> [abs |-> TRUE, comps |-> p]]

EmptyMap == [k \in {} |-> k]

\* where the link at p points
LinkTarget(f, p) ==
    IF f[p].target.abs THEN f[p].target.comps
    ELSE ApplyRel(DirName(p), f[p].target.comps)

\* follow symbolic links from p; ok is FALSE when the walk ends on nothing
RECURSIVE Resolve(_, _, _)
Resolve(f, p, n) ==
    IF p \notin DOMAIN f THEN [ok |-> FALSE, path |-> p]
    ELSE IF f[p].kind = "link"
         THEN IF n = 0 THEN [ok |-> FALSE, path |-> p]
              ELSE Resolve(f, LinkTarget(f, p), n - 1)
         ELSE [ok |-> TRUE, path |-> p]

\* os.path.exists: follows symbolic links, FALSE for a dangling link
exists(f, p) == Resolve(f, p, 3).ok

\* os.path.isfile: follows symbolic links
isfile(f, p) ==
    LET r == Resolve(f, p, 3) IN r.ok /\ f[r.path].kind = "file"

\* os.path.isdir: follows symbolic links
isdir(f, p) ==
    LET r == Resolve(f, p, 3) IN r.ok /\ f[r.path].kind = "dir"

\* os.path.islink
islink(f, p) == p \in DOMAIN f /\ f[p].kind = "link"

\* the bytes read through p
ReadFile(f, p) == f[Resolve(f, p, 3).path].content

Put(f, p, e) == [q \in (DOMAIN f) \cup {p} |-> IF q = p THEN e ELSE f[q]]

Remove(f, p) == [q \in (DOMAIN f) \ {p} |-> f[q]]

\* os.makedirs(d, exist_ok=True)
makedirs(f, d) ==
    LET missing == {SubSeq(d, 1, k) : k \in 1..Len(d)} \ DOMAIN f
    IN  [q \in (DOMAIN f) \cup missing |-> IF q \in DOMAIN f THEN f[q] ELSE Directory]

\* bytes c with the last byte wrong
Flip(c) == IF c = <<>> THEN c ELSE [c EXCEPT ![Len(c)] = IF @ = 1 THEN 2 ELSE 1]

\* the bytes that arrive when the bytes c of src are copied
Written(src, c) == IF src \in torn THEN Flip(c) ELSE c

\* shutil.copy(src, dst) with dst a file path: the bytes are written through
\* dst (onto the existing file, through a link, or into a new file)
shutil_copy(f, src, dst) ==
    LET c == Written(src, ReadFile(f, src))
        t == IF islink(f, dst) THEN LinkTarget(f, dst) ELSE dst
    IN  Put(f, t, RegFile(c))

(***************************************************************************)
(* The checksum engine (compare/comparefiles.py).  A digest is modelled by *)
(* the bytes it was computed from: MD5 is taken to be collision free.      *)
(***************************************************************************)
\* bytes per read of the hashing loop, scaled down from 128 * md5.block_size
ChunkSize == 2

Digest(bytes) == [tag |-> "digest", data |-> bytes]

\* the value False
NoMatch == [tag |-> "False", data |-> <<>>]

\* the empty string "" (line 69)
EmptyStr == [tag |-> "str", data |-> <<>>]

\* the value None
None == [tag |-> "None", data |-> <<>>]

\* Python truth of a value returned by compare_files
Truthy(v) == v.tag = "digest"

NumChunks(c) == (Len(c) + ChunkSize - 1) \div ChunkSize

\* the digests md5_hash_generator yields, one per chunk read
md5_hash_generator(c) ==
    [k \in 1..NumChunks(c) |-> Digest(SubSeq(c, 1, Min(k * ChunkSize, Len(c))))]

md5_hash(c) == Digest(c)

\* open(file_p, 'rb') refusing a symbolic link
open_rb_nofollow(f, file_p) ==
    IF islink(f, file_p) THEN [exc |-> "OSError", content |-> <<>>]
    ELSE IF ~exists(f, file_p) THEN [exc |-> "FileNotFoundError", content |-> <<>>]
    ELSE IF isdir(f, file_p) THEN [exc |-> "IsADirectoryError", content |-> <<>>]
    ELSE [exc |-> "none", content |-> ReadFile(f, file_p)]

\* open(file_p, 'rb') (lines 24 and 43): follows symbolic links, fails on a
\* path that leads to nothing or to a directory
open_rb(f, file_p) ==
    IF ~exists(f, file_p) THEN [exc |-> "FileNotFoundError", content |-> <<>>]
    ELSE IF isdir(f, file_p) THEN [exc |-> "IsADirectoryError", content |-> <<>>]
    ELSE [exc |-> "none", content |-> ReadFile(f, file_p)]

\* md5_hash called on a path: the exception of open, or the digest
md5_hash_file(f, file_p) ==
    LET o == open_rb(f, file_p)
    IN  IF o.exc # "none" THEN [exc |-> o.exc, value |-> None]
        ELSE [exc |-> "none", value |-> md5_hash(o.content)]

\* next() on a generator of md5_hash_generator that has read k chunks: the
\* exception of open, StopIteration at the end of the file, or the digest of
\* what has been read with one more chunk
generator_next(f, file_p, k) ==
    LET o == open_rb(f, file_p)
        g == md5_hash_generator(o.content)
    IN  IF o.exc # "none" THEN [exc |-> o.exc, stop |-> FALSE, digest |-> None]
        ELSE IF k >= Len(g) THEN [exc |-> "none", stop |-> TRUE, digest |-> None]
        ELSE [exc |-> "none", stop |-> FALSE, digest |-> g[k + 1]]

\* line 74 never leaving the loop early
checksums_differ_never(checksum_a, checksum_b) == FALSE

\* line 74
checksums_differ(checksum_a, checksum_b) == checksum_a # checksum_b

RECURSIVE ParallelLoop(_, _, _, _)
ParallelLoop(ga, gb, i, checksum_a) ==
    IF i > Len(ga) THEN checksum_a
    ELSE IF i > Len(gb) THEN ga[i]
    ELSE IF checksums_differ(ga[i], gb[i]) THEN NoMatch
    ELSE ParallelLoop(ga, gb, i + 1, ga[i])

md5_parallel_match(ca, cb) ==
    ParallelLoop(md5_hash_generator(ca), md5_hash_generator(cb), 1, EmptyStr)

\* os.stat(p, follow_symlinks=False).st_size
st_size(f, p) ==
    IF f[p].kind = "link" THEN Len(f[p].target.comps) ELSE Len(f[p].content)

\* the assertions without those of lines 108 and 111
CompareFilesValid_LinksAllowed(f, a, b) ==
    /\ exists(f, a) /\ ~isdir(f, a)
    /\ exists(f, b) /\ ~isdir(f, b)

\* the assertions of compare_files (lines 106-111) hold
CompareFilesValid(f, a, b) ==
    /\ exists(f, a) /\ ~isdir(f, a) /\ ~islink(f, a)
    /\ exists(f, b) /\ ~isdir(f, b) /\ ~islink(f, b)

\* compare_files without the shortcut of lines 113-114
compare_files_no_same_path(f, file_a_p, file_b_p, file_a_checksum, file_b_checksum) ==
    IF st_size(f, file_a_p) # st_size(f, file_b_p) THEN NoMatch
    ELSE IF file_a_checksum = None /\ file_b_checksum = None
         THEN md5_parallel_match(ReadFile(f, file_a_p), ReadFile(f, file_b_p))
    ELSE LET checksum_a == IF file_a_checksum = None
                           THEN md5_hash(ReadFile(f, file_a_p)) ELSE file_a_checksum
             checksum_b == IF file_b_checksum = None
                           THEN md5_hash(ReadFile(f, file_b_p)) ELSE file_b_checksum
         IN  IF checksum_a = checksum_b THEN checksum_b ELSE NoMatch

\* compare_files without the test of lines 116-117
compare_files_no_size_check(f, file_a_p, file_b_p, file_a_checksum, file_b_checksum) ==
    IF file_a_p = file_b_p THEN md5_hash(ReadFile(f, file_a_p))
    ELSE IF file_a_checksum = None /\ file_b_checksum = None
         THEN md5_parallel_match(ReadFile(f, file_a_p), ReadFile(f, file_b_p))
    ELSE LET checksum_a == IF file_a_checksum = None
                           THEN md5_hash(ReadFile(f, file_a_p)) ELSE file_a_checksum
             checksum_b == IF file_b_checksum = None
                           THEN md5_hash(ReadFile(f, file_b_p)) ELSE file_b_checksum
         IN  IF checksum_a = checksum_b THEN checksum_b ELSE NoMatch

\* compare_files computing both checksums whatever was supplied
compare_files_rehashes(f, file_a_p, file_b_p, file_a_checksum, file_b_checksum) ==
    IF file_a_p = file_b_p THEN md5_hash(ReadFile(f, file_a_p))
    ELSE IF st_size(f, file_a_p) # st_size(f, file_b_p) THEN NoMatch
    ELSE IF file_a_checksum = None /\ file_b_checksum = None
         THEN md5_parallel_match(ReadFile(f, file_a_p), ReadFile(f, file_b_p))
    ELSE LET checksum_a == md5_hash(ReadFile(f, file_a_p))
             checksum_b == md5_hash(ReadFile(f, file_b_p))
         IN  IF checksum_a = checksum_b THEN checksum_b ELSE NoMatch

\* compare_files hands the two files to md5_parallel_match (lines 113-120)
UsesParallelMatch(f, file_a_p, file_b_p, file_a_checksum, file_b_checksum) ==
    /\ file_a_p # file_b_p
    /\ st_size(f, file_a_p) = st_size(f, file_b_p)
    /\ file_a_checksum = None
    /\ file_b_checksum = None

\* the paths compare_files passes to md5_hash, in order (lines 114, 123, 128)
md5_hash_calls(f, file_a_p, file_b_p, file_a_checksum, file_b_checksum) ==
    IF file_a_p = file_b_p THEN <<file_a_p>>
    ELSE IF st_size(f, file_a_p) # st_size(f, file_b_p) THEN <<>>
    ELSE IF file_a_checksum = None /\ file_b_checksum = None THEN <<>>
    ELSE (IF file_a_checksum = None THEN <<file_a_p>> ELSE <<>>)
         \o (IF file_b_checksum = None THEN <<file_b_p>> ELSE <<>>)

\* compare_files when its assertions hold
compare_files(f, file_a_p, file_b_p, file_a_checksum, file_b_checksum) ==
    IF file_a_p = file_b_p THEN md5_hash(ReadFile(f, file_a_p))
    ELSE IF st_size(f, file_a_p) # st_size(f, file_b_p) THEN NoMatch
    ELSE IF file_a_checksum = None /\ file_b_checksum = None
         THEN md5_parallel_match(ReadFile(f, file_a_p), ReadFile(f, file_b_p))
    ELSE LET checksum_a == IF file_a_checksum = None
                           THEN md5_hash(ReadFile(f, file_a_p)) ELSE file_a_checksum
             checksum_b == IF file_b_checksum = None
                           THEN md5_hash(ReadFile(f, file_b_p)) ELSE file_b_checksum
         IN  IF checksum_a = checksum_b THEN checksum_b ELSE NoMatch

(***************************************************************************)
(* The attribute index (compare/canonicalfiles.py) and the scanner.        *)
(***************************************************************************)
\* the instant at which the filesystems of the model are made
Epoch == 1

\* st_ctime and st_mtime of os.lstat: an entry written later carries its time
st_ctime(f, file_p) == IF "ctime" \in DOMAIN f[file_p] THEN f[file_p].ctime ELSE Epoch

st_mtime(f, file_p) == IF "mtime" \in DOMAIN f[file_p] THEN f[file_p].mtime ELSE Epoch

\* the name "" that os.path.split gives for the parent of a file in "/"
EmptyName == Comp("")

get_metadata(f, file_p, root_p) ==
    [name      |-> BaseName(file_p),
     file_type |-> BaseName(file_p).ext,
     parent    |-> IF DirName(file_p) = <<>> THEN EmptyName ELSE BaseName(DirName(file_p)),
     rel_path  |-> relpath(file_p, root_p),
     size      |-> st_size(f, file_p),
     ctime     |-> st_ctime(f, file_p),
     mtime     |-> st_mtime(f, file_p)]

append_to_dict(by_dict, key, file_path) ==
    IF key \in DOMAIN by_dict
    THEN [by_dict EXCEPT ![key] = @ \cup {file_path}]
    ELSE [k \in (DOMAIN by_dict) \cup {key} |->
             IF k = key THEN {file_path} ELSE by_dict[k]]

EmptyIndex ==
    [files |-> EmptyMap, by_size |-> EmptyMap, by_name |-> EmptyMap,
     by_type |-> EmptyMap, by_parent |-> EmptyMap, by_rel_path |-> EmptyMap,
     by_ctime |-> EmptyMap, by_mtime |-> EmptyMap]

\* CanonicalFiles._append_to_scan
append_to_scan(index, file_path, metadata) ==
    [index EXCEPT
        !.by_size     = append_to_dict(@, metadata.size, file_path),
        !.by_name     = append_to_dict(@, metadata.name, file_path),
        !.by_type     = append_to_dict(@, metadata.file_type, file_path),
        !.by_parent   = append_to_dict(@, metadata.parent, file_path),
        !.by_rel_path = append_to_dict(@, metadata.rel_path, file_path),
        !.by_ctime    = append_to_dict(@, metadata.ctime, file_path),
        !.by_mtime    = append_to_dict(@, metadata.mtime, file_path)]

\* ScanFiles.append_file of the canonical scan: the record of the file is
\* kept in files and handed to _append_to_scan
append_file_record(index, file_p, md) ==
    append_to_scan([index EXCEPT !.files = Put(@, file_p, md)], file_p, md)

canonical_append_file(index, f, file_p, root_p) ==
    append_file_record(index, file_p, get_metadata(f, file_p, root_p))

\* ScanFiles.append_file of the query scan: files is a dict, a path that is
\* inserted again keeps its place in the iteration order
query_append_file(query, f, file_p, root_p) ==
    [order |-> IF file_p \in DOMAIN query.files THEN query.order
               ELSE Append(query.order, file_p),
     files |-> Put(query.files, file_p, get_metadata(f, file_p, root_p))]

\* an optional argument: left at None, or a value
NoArg == [given |-> FALSE]

Some(v) == [given |-> TRUE, v |-> v]

\* Python's truth of an attribute value: false for "", for 0 and for None
TruthyName(v) == v # EmptyName

TruthyType(v) == v # ""

TruthyPath(v) == v # <<>>

TruthyTime(v) == v # 0

\* CanonicalFiles.get_intersection: size_set (lines 132-135), then each
\* optional argument that is true in Python's sense ("if name:", lines 139-173),
\* set() at the first of them whose value is not a key, else the intersection
get_intersection(index, size, name, file_type, parent, rel_path, ctime, mtime) ==
    LET size_set == IF size \in DOMAIN index.by_size THEN index.by_size[size] ELSE {}
        used == <<[d |-> index.by_name, a |-> name,
                   t |-> name.given /\ TruthyName(name.v)],
                  [d |-> index.by_type, a |-> file_type,
                   t |-> file_type.given /\ TruthyType(file_type.v)],
                  [d |-> index.by_parent, a |-> parent,
                   t |-> parent.given /\ TruthyName(parent.v)],
                  [d |-> index.by_rel_path, a |-> rel_path,
                   t |-> rel_path.given /\ TruthyPath(rel_path.v)],
                  [d |-> index.by_ctime, a |-> ctime,
                   t |-> ctime.given /\ TruthyTime(ctime.v)],
                  [d |-> index.by_mtime, a |-> mtime,
                   t |-> mtime.given /\ TruthyTime(mtime.v)]>>
    IN  IF \E i \in DOMAIN used : used[i].t /\ used[i].a.v \notin DOMAIN used[i].d
        THEN {}
        ELSE {p \in size_set : \A i \in DOMAIN used : used[i].t => p \in used[i].d[used[i].a.v]}

(***************************************************************************)
(* The compare session (compare/comparesession.py).                        *)
(***************************************************************************)
NoItems == [kind |-> "None", items |-> <<>>]

ItemList(items) == [kind |-> "list", items |-> items]

\* a bare string assigned to query_items (versionedfiles.py line 370)
ItemStr(p) == [kind |-> "str", items |-> <<p>>]

\* Session.__init__
Session(query_items, canonical_dir) ==
    [query_items   |-> query_items,
     canonical_dir |-> canonical_dir,
     canonical     |-> EmptyIndex,
     query         |-> [order |-> <<>>, files |-> EmptyMap],
     duplicates    |-> EmptyMap,
     unique        |-> {},
     skipped_self  |-> {},
     source_error_files         |-> {},
     possible_match_error_files |-> {},
     checksum      |-> EmptyMap,
     pre_computed_checksum_count |-> 0]

retrieve_checksum_from_cache(s, file_p) ==
    IF file_p \in DOMAIN s.checksum THEN s.checksum[file_p] ELSE None

\* a cache that keeps nothing
store_checksum_in_cache_dropped(s, file_p, checksum) == s

store_checksum_in_cache(s, file_p, checksum) ==
    [s EXCEPT !.checksum = Put(@, file_p, checksum)]

\* _append_match keyed by its second argument
append_match_swapped(s, canonical_p, query_p) ==
    [s EXCEPT !.duplicates =
        IF query_p \in DOMAIN @
        THEN [@ EXCEPT ![query_p] = Append(@, canonical_p)]
        ELSE Put(@, query_p, <<canonical_p>>)]

\* Session._append_match: the dict is keyed by the first argument
append_match(s, canonical_p, query_p) ==
    [s EXCEPT !.duplicates =
        IF canonical_p \in DOMAIN @
        THEN [@ EXCEPT ![canonical_p] = Append(@, query_p)]
        ELSE Put(@, canonical_p, <<query_p>>)]

add_unique(s, file_p) == [s EXCEPT !.unique = @ \cup {file_p}]

\* append_to_canonical_scan that adds nothing
append_to_canonical_scan_skipped(s, f, file_p) == s

\* Session.append_to_canonical_scan
append_to_canonical_scan(s, f, file_p) ==
    [s EXCEPT !.canonical = canonical_append_file(@, f, file_p, <<>>)]

\* the regular files a scan of directory d finds (skip_zero_len is set)
ScannedFiles(f, d) ==
    {p \in DOMAIN f : IsDescendant(p, d) /\ f[p].kind = "file" /\ Len(f[p].content) > 0}

\* some enumeration of a finite set, as Python iterates a set() or os.walk
\* lists a directory
Enumerations(S) ==
    {q \in [1..Cardinality(S) -> S] : \A i, j \in 1..Cardinality(S) : q[i] = q[j] => i = j}

RECURSIVE ScanCanonicalLoop(_, _, _, _)
ScanCanonicalLoop(index, f, files, root_p) ==
    IF files = <<>> THEN index
    ELSE ScanCanonicalLoop(canonical_append_file(index, f, Head(files), root_p),
                           f, Tail(files), root_p)

\* Session.do_canonical_scan driven to its end
do_canonical_scan(s, f, walk) ==
    [s EXCEPT !.canonical = ScanCanonicalLoop(@, f, walk, s.canonical_dir)]

RECURSIVE ScanQueryLoop(_, _, _)
ScanQueryLoop(query, f, files) ==
    IF files = <<>> THEN query
    ELSE ScanQueryLoop(query_append_file(query, f, Head(files), <<>>), f, Tail(files))

\* Session.do_query_scan driven to its end; the query items are files
do_query_scan(s, f) ==
    [s EXCEPT !.query = ScanQueryLoop(@, f, s.query_items.items)]

\* the arguments of do_compare; after the first record the variables name,
\* file_type, ... hold the attribute values of the record before (lines
\* 375-403), and a field here is the Python truth of that variable
Flags(name, file_type, parent, rel_path, ctime, mtime, skip_checksum) ==
    [name |-> name, file_type |-> file_type, parent |-> parent, rel_path |-> rel_path,
     ctime |-> ctime, mtime |-> mtime, skip_checksum |-> skip_checksum]

DefaultFlags == Flags(FALSE, FALSE, FALSE, FALSE, FALSE, FALSE, FALSE)

\* lines 440-445: the except branch
record_error(s, f, file_p, possible_match_p) ==
    LET s2 == IF ~exists(f, file_p)
              THEN [s EXCEPT !.source_error_files = @ \cup {file_p}]
              ELSE s
    IN  IF ~exists(f, possible_match_p)
        THEN [s2 EXCEPT !.possible_match_error_files = @ \cup {possible_match_p}]
        ELSE s2

\* one candidate read and compared even when skip_checksum is set
Candidate_always_compares(st, f, file_p, possible_match_p, skip_checksum) ==
    LET s == st.s
    IN  IF file_p = possible_match_p
        THEN [st EXCEPT !.skip = TRUE, !.s.skipped_self = @ \cup {file_p}]
        ELSE LET cached == retrieve_checksum_from_cache(s, possible_match_p)
                 s1 == IF cached # None
                       THEN [s EXCEPT !.pre_computed_checksum_count = @ + 1]
                       ELSE s
                 st1 == [st EXCEPT !.calls = Append(@, <<file_p, possible_match_p, cached>>)]
             IN  IF ~CompareFilesValid(f, file_p, possible_match_p)
                 THEN [st1 EXCEPT !.s = record_error(s1, f, file_p, possible_match_p)]
                 ELSE LET checksum == compare_files(f, file_p, possible_match_p,
                                                    None, cached)
                      IN  IF Truthy(checksum)
                          THEN [st1 EXCEPT !.match = TRUE,
                                           !.s = append_match(
                                                    store_checksum_in_cache(
                                                       s1, possible_match_p, checksum),
                                                    file_p, possible_match_p)]
                          ELSE [st1 EXCEPT !.s = s1]

\* one candidate of a query record, lines 421-450; calls lists the calls of
\* compare_files made: file_a_p, file_b_p and the file_b_checksum passed
Candidate(st, f, file_p, possible_match_p, skip_checksum) ==
    LET s == st.s
    IN  IF file_p = possible_match_p
        THEN [st EXCEPT !.skip = TRUE, !.s.skipped_self = @ \cup {file_p}]
        ELSE IF skip_checksum
        THEN [st EXCEPT !.match = TRUE, !.s = append_match(s, file_p, possible_match_p)]
        ELSE LET cached == retrieve_checksum_from_cache(s, possible_match_p)
                 s1 == IF cached # None
                       THEN [s EXCEPT !.pre_computed_checksum_count = @ + 1]
                       ELSE s
                 st1 == [st EXCEPT !.calls = Append(@, <<file_p, possible_match_p, cached>>)]
             IN  IF ~CompareFilesValid(f, file_p, possible_match_p)
                 THEN [st1 EXCEPT !.s = record_error(s1, f, file_p, possible_match_p)]
                 ELSE LET checksum == compare_files(f, file_p, possible_match_p,
                                                    None, cached)
                      IN  IF Truthy(checksum)
                          THEN [st1 EXCEPT !.match = TRUE,
                                           !.s = append_match(
                                                    store_checksum_in_cache(
                                                       s1, possible_match_p, checksum),
                                                    file_p, possible_match_p)]
                          ELSE [st1 EXCEPT !.s = s1]

\* the loop of line 419 over the candidates
RECURSIVE CandidateLoop(_, _, _, _, _)
CandidateLoop(st, f, file_p, cands, skip_checksum) ==
    IF cands = <<>> THEN st
    ELSE CandidateLoop(Candidate(st, f, file_p, Head(cands), skip_checksum),
                       f, file_p, Tail(cands), skip_checksum)

\* the members of set S in the order of the enumeration ord
RECURSIVE InOrder(_, _)
InOrder(ord, S) ==
    IF ord = <<>> THEN <<>>
    ELSE IF Head(ord) \in S THEN <<Head(ord)>> \o InOrder(Tail(ord), S)
    ELSE InOrder(Tail(ord), S)

\* lines 375-403 for one attribute: what is passed to get_intersection
Rebound(flag, value) == IF flag THEN Some(value) ELSE NoArg

\* lines 452-453 without the test of skip
IsUnique_ignores_self(match, skip, n) == ~match

\* lines 452-453: the record had no match and is to be added to unique
IsUnique(match, skip, n) == ~match /\ (~skip \/ (skip /\ n > 1))

\* a query record given up at the first candidate that fails validation
CompareRecord_fatal(cs, f, file_p, ord) ==
    LET metadata == cs.s.query.files[file_p]
        fl == cs.flags
        possible_matches ==
            get_intersection(cs.s.canonical, metadata.size,
                             Rebound(fl.name, metadata.name),
                             Rebound(fl.file_type, metadata.file_type),
                             Rebound(fl.parent, metadata.parent),
                             Rebound(fl.rel_path, metadata.rel_path),
                             Rebound(fl.ctime, metadata.ctime),
                             Rebound(fl.mtime, metadata.mtime))
        st == CandidateLoop([s |-> cs.s, match |-> FALSE, skip |-> FALSE,
                             calls |-> cs.calls],
                            f, file_p, InOrder(ord, possible_matches), fl.skip_checksum)
    IN  IF \E c \in possible_matches : c # file_p /\ ~CompareFilesValid(f, file_p, c)
        THEN cs
        ELSE [cs EXCEPT !.s = IF IsUnique(st.match, st.skip, Cardinality(possible_matches))
                               THEN add_unique(st.s, file_p) ELSE st.s,
                        !.calls = st.calls]

\* one query record of do_compare, lines 370-454
CompareRecord(cs, f, file_p, ord) ==
    LET metadata == cs.s.query.files[file_p]
        fl == cs.flags
        flags1 == [fl EXCEPT !.name      = @ /\ TruthyName(metadata.name),
                             !.file_type = @ /\ TruthyType(metadata.file_type),
                             !.parent    = @ /\ TruthyName(metadata.parent),
                             !.rel_path  = @ /\ TruthyPath(metadata.rel_path),
                             !.ctime     = @ /\ TruthyTime(metadata.ctime),
                             !.mtime     = @ /\ TruthyTime(metadata.mtime)]
        possible_matches ==
            get_intersection(cs.s.canonical, metadata.size,
                             Rebound(fl.name, metadata.name),
                             Rebound(fl.file_type, metadata.file_type),
                             Rebound(fl.parent, metadata.parent),
                             Rebound(fl.rel_path, metadata.rel_path),
                             Rebound(fl.ctime, metadata.ctime),
                             Rebound(fl.mtime, metadata.mtime))
    IN  IF Cardinality(possible_matches) = 0
        THEN [cs EXCEPT !.s = add_unique(@, file_p), !.flags = flags1]
        ELSE LET st == CandidateLoop([s |-> cs.s, match |-> FALSE, skip |-> FALSE,
                                      calls |-> cs.calls],
                                     f, file_p, InOrder(ord, possible_matches),
                                     fl.skip_checksum)
             IN  [s |-> IF IsUnique(st.match, st.skip, Cardinality(possible_matches))
                        THEN add_unique(st.s, file_p) ELSE st.s,
                  flags |-> flags1,
                  calls |-> st.calls]

RECURSIVE CompareLoop(_, _, _, _)
CompareLoop(cs, f, files, ord) ==
    IF files = <<>> THEN cs
    ELSE CompareLoop(CompareRecord(cs, f, Head(files), ord), f, Tail(files), ord)

\* Session.do_compare(...) driven to its end: the session, the exception and
\* the calls of compare_files made; ord is the order in which the candidate
\* sets happen to be iterated
do_compare_pass(s, f, ord, flags) ==
    IF flags.skip_checksum /\ ~flags.name
    THEN [s |-> s, exc |-> "AssertionError", calls |-> <<>>]
    ELSE LET cs == CompareLoop([s |-> s, flags |-> flags, calls |-> <<>>],
                               f, s.query.order, ord)
         IN  [s |-> cs.s, exc |-> "none", calls |-> cs.calls]

\* the generator yields count n before it looks at record n (lines 372-373):
\* a variant that yields after the record
ProcessedAtYield_after(order, n) == SubSeq(order, 1, n)

\* the query records processed when do_compare has yielded count n
ProcessedAtYield(order, n) == SubSeq(order, 1, n - 1)

\* Session.do_compare(...) driven until it has yielded count n and then
\* dropped by the caller
do_compare_abandoned(s, f, ord, flags, n) ==
    LET cs == CompareLoop([s |-> s, flags |-> flags, calls |-> <<>>],
                          f, ProcessedAtYield(s.query.order, n), ord)
    IN  [s |-> cs.s, exc |-> "none", calls |-> cs.calls]

\* Session.do_compare() with the default arguments
do_compare(s, f, ord) == do_compare_pass(s, f, ord, DefaultFlags).s

(***************************************************************************)
(* The copy store (copyfiles/versionedfiles.py).                           *)
(***************************************************************************)
Ok(f) == [fs |-> f, exc |-> "none"]

Raise(f, e) == [fs |-> f, exc |-> e]

\* os.unlink
os_unlink(f, p) ==
    IF p \notin DOMAIN f THEN Raise(f, "FileNotFoundError")
    ELSE IF f[p].kind = "dir" THEN Raise(f, "IsADirectoryError")
    ELSE Ok(Remove(f, p))

\* os.symlink(target, p): fails when anything, a dangling link included, is at p
os_symlink(f, target, p) ==
    IF p \in DOMAIN f THEN Raise(f, "FileExistsError")
    ELSE Ok(Put(f, p, [kind |-> "link", content |-> <<>>, target |-> target]))

\* "if os.path.exists(dest_p): os.unlink(dest_p)" and then os.symlink
\* (lines 311-313 and 392-394)
replace_by_symlink(f, target, dest_p) ==
    IF exists(f, dest_p)
    THEN LET u == os_unlink(f, dest_p)
         IN  IF u.exc # "none" THEN u ELSE os_symlink(u.fs, target, dest_p)
    ELSE os_symlink(f, target, dest_p)

\* verified_copy_file
\* verified_copy_file that does not compare
verified_copy_file_unchecked(f, src, dst) == Ok(shutil_copy(f, src, dst))

\* verified_copy_file that empties the directory of dst when the check fails
verified_copy_file_rollback(f, src, dst) ==
    LET f1 == shutil_copy(f, src, dst)
        kept == {p \in DOMAIN f1 : ~(Len(p) > 1 /\ DirName(p) = DirName(dst))}
    IN  IF ~CompareFilesValid(f1, src, dst) THEN Raise(f1, "AssertionError")
        ELSE IF ~Truthy(compare_files(f1, src, dst, None, None))
             THEN Raise([p \in kept |-> f1[p]], "IOError")
        ELSE Ok(f1)

verified_copy_file(f, src, dst) ==
    LET f1 == shutil_copy(f, src, dst)
    IN  IF ~CompareFilesValid(f1, src, dst) THEN Raise(f1, "AssertionError")
        ELSE IF ~Truthy(compare_files(f1, src, dst, None, None)) THEN Raise(f1, "IOError")
        ELSE Ok(f1)

\* the name base + "." + ver_prefix + str(version).rjust(num_digits, "0") + ext
VersionedName(base, version, ext) == [base |-> base, ver |-> version, ext |-> ext]

\* the variable version of copy_and_add_ver_num: an int, then (line 78) a str
IntVersion(n) == [isint |-> TRUE, n |-> n]

StrVersion(n) == [isint |-> FALSE, n |-> n]

\* the loop of lines 76-81: "version += 1" on what line 78 left in version
RECURSIVE VersionLoop(_, _, _, _, _)
VersionLoop(f, dir, base, ext, version) ==
    IF ~version.isint THEN [exc |-> "TypeError", path |-> <<>>]
    ELSE LET n == version.n + 1
             dest_p == Append(dir, VersionedName(base, n, ext))
         IN  IF ~exists(f, dest_p) THEN [exc |-> "none", path |-> dest_p]
             ELSE VersionLoop(f, dir, base, ext, StrVersion(n))

\* copy_and_add_ver_num without the test of line 80: always version 1
copy_and_add_ver_num_overwrite(f, source_p, dest_p, do_verified_copy) ==
    LET dest_n == BaseName(dest_p)
        path == Append(DirName(dest_p), VersionedName(dest_n.base, 1, dest_n.ext))
    IN  IF do_verified_copy
        THEN LET c == verified_copy_file(f, source_p, path)
             IN  [fs |-> c.fs, exc |-> c.exc, value |-> path]
        ELSE [fs |-> shutil_copy(f, source_p, path), exc |-> "none", value |-> path]

\* copy_and_add_ver_num with a loop that keeps counting: the copy goes to the
\* smallest version whose name is free
copy_and_add_ver_num_next_version(f, source_p, dest_p, do_verified_copy) ==
    LET dest_n == BaseName(dest_p)
        free(n) == ~exists(f, Append(DirName(dest_p),
                                     VersionedName(dest_n.base, n, dest_n.ext)))
        version == CHOOSE n \in 1..(Cardinality(DOMAIN f) + 1) :
                      free(n) /\ \A m \in 1..(n - 1) : ~free(m)
        path == Append(DirName(dest_p), VersionedName(dest_n.base, version, dest_n.ext))
    IN  IF do_verified_copy
        THEN LET c == verified_copy_file(f, source_p, path)
             IN  [fs |-> c.fs, exc |-> c.exc, value |-> path]
        ELSE [fs |-> shutil_copy(f, source_p, path), exc |-> "none", value |-> path]

copy_and_add_ver_num(f, source_p, dest_p, do_verified_copy) ==
    LET dest_n == BaseName(dest_p)
        found == VersionLoop(f, DirName(dest_p), dest_n.base, dest_n.ext, IntVersion(0))
    IN  IF found.exc # "none" THEN [fs |-> f, exc |-> found.exc, value |-> <<>>]
        ELSE IF do_verified_copy
             THEN LET c == verified_copy_file(f, source_p, found.path)
                  IN  [fs |-> c.fs, exc |-> c.exc, value |-> found.path]
             ELSE [fs |-> shutil_copy(f, source_p, found.path), exc |-> "none",
                   value |-> found.path]

Result(f, s, e, v) == [fs |-> f, session |-> s, exc |-> e, value |-> v]

\* line 383 taking the last recorded match instead of the first
resolve_duplicate_last(s, source_p) ==
    s.duplicates[source_p][Len(s.duplicates[source_p])]

\* line 383: the physical file a recorded duplicate resolves to
resolve_duplicate(s, source_p) == s.duplicates[source_p][1]

\* lines 385-396 returning the path of the link instead of the physical file
link_to_data_file_returns_link(f, s, data_file_p, dest_p) ==
    LET f2 == makedirs(f, DirName(dest_p))
        relative_p == relpath(data_file_p, DirName(dest_p))
        l  == replace_by_symlink(f2, [abs |-> FALSE, comps |-> relative_p], dest_p)
    IN  Result(l.fs, s, l.exc, IF l.exc = "none" THEN dest_p ELSE <<>>)

\* lines 385-396: the directories of the link, the relative target, the link
\* in place of what was at dest_p, and the value returned
link_to_data_file(f, s, data_file_p, dest_p) ==
    LET f2 == makedirs(f, DirName(dest_p))
        relative_p == relpath(data_file_p, DirName(dest_p))
        l  == replace_by_symlink(f2, [abs |-> FALSE, comps |-> relative_p], dest_p)
    IN  Result(l.fs, s, l.exc, IF l.exc = "none" THEN data_file_p ELSE <<>>)

\* copy_file_deduplicated writing the versioned copy beside the destination
\* instead of into data_d
copy_file_deduplicated_into_dest(f, s, source_p, dest_p, data_d, do_verified_copy) ==
    IF StartsWith(dest_p, data_d) THEN Result(f, s, "ValueError", <<>>)
    ELSE IF ~isfile(f, source_p) THEN Result(f, s, "ValueError", <<>>)
    ELSE
    LET s1 == [s EXCEPT !.query_items = ItemStr(source_p)]
    IN  IF DOMAIN s1.duplicates = {}
        THEN LET c == copy_and_add_ver_num(f, source_p, dest_p, do_verified_copy)
             IN  IF c.exc # "none" THEN Result(c.fs, s1, c.exc, <<>>)
                 ELSE link_to_data_file(c.fs, append_to_canonical_scan(s1, c.fs, c.value),
                                        c.value, dest_p)
        ELSE IF source_p \notin DOMAIN s1.duplicates
             THEN Result(f, s1, "KeyError", <<>>)
             ELSE link_to_data_file(f, s1, resolve_duplicate(s1, source_p), dest_p)

\* copy_file_deduplicated.  do_query_scan() and do_compare() (lines 371-372)
\* are calls of generator functions whose results are dropped: their bodies
\* do not run, the session keeps what it held.
copy_file_deduplicated(f, s, source_p, dest_p, data_d, do_verified_copy) ==
    IF StartsWith(dest_p, data_d) THEN Result(f, s, "ValueError", <<>>)
    ELSE IF ~isfile(f, source_p) THEN Result(f, s, "ValueError", <<>>)
    ELSE
    LET s1 == [s EXCEPT !.query_items = ItemStr(source_p)]
    IN  IF DOMAIN s1.duplicates = {}
        THEN LET c == copy_and_add_ver_num(f, source_p, Append(data_d, BaseName(dest_p)),
                                           do_verified_copy)
             IN  IF c.exc # "none" THEN Result(c.fs, s1, c.exc, <<>>)
                 ELSE link_to_data_file(c.fs, append_to_canonical_scan(s1, c.fs, c.value),
                                        c.value, dest_p)
        ELSE IF source_p \notin DOMAIN s1.duplicates
             THEN Result(f, s1, "KeyError", <<>>)
             ELSE link_to_data_file(f, s1, resolve_duplicate(s1, source_p), dest_p)

\* the else branch of the second loop (lines 310-313)
link_in_place(f, source_p, dest_p) ==
    replace_by_symlink(makedirs(f, DirName(dest_p)),
                       [abs |-> TRUE, comps |-> source_p], dest_p)

\* a copydescriptor whose source fails the checks of lines 287-290
BadSource(f, copydescriptor) ==
    ~exists(f, copydescriptor.source_p) \/ ~isfile(f, copydescriptor.source_p)

\* the checks without the test of dest_d (lines 282-283)
BatchPrecondition_NoDestCheck(f, descriptors, dest, data_d) ==
    IF \E i \in 1..Len(descriptors) : BadSource(f, descriptors[i])
    THEN "ValueError"
    ELSE "none"

\* the checks looking at the first copydescriptor only
BatchPrecondition_FirstOnly(f, descriptors, dest, data_d) ==
    IF StartsWith(dest, data_d) THEN "ValueError"
    ELSE IF descriptors # <<>> /\ BadSource(f, descriptors[1])
         THEN "ValueError"
         ELSE "none"

\* the checks of copy_files_deduplicated before its second loop (lines 282-290)
BatchPrecondition(f, descriptors, dest, data_d) ==
    IF StartsWith(dest, data_d) THEN "ValueError"
    ELSE IF \E i \in 1..Len(descriptors) : BadSource(f, descriptors[i])
         THEN "ValueError"
         ELSE "none"

(***************************************************************************)
(* The world the calls are made in.                                        *)
(***************************************************************************)
DataD == <<Comp("s")>>

SrcD == <<Comp("a")>>

\* dest_d: outside data_d, inside data_d, beside it with a longer name, and
\* the root directory "/", which data_d lies in
DestRoots == {<<Comp("d")>>, <<Comp("s"), Comp("u")>>, <<Comp("s2")>>, <<>>}

F1 == Append(SrcD, FileName("f1", ".txt"))

F2 == Append(SrcD, FileName("f2", ".txt"))

F3 == Append(SrcD, FileName("f3", ".txt"))

SrcDir == Append(SrcD, Comp("sdir"))

SrcGone == Append(SrcD, FileName("gone", ".txt"))

\* f1 and f2 hold the same bytes, f3 other bytes of the same size
SourceFiles == (F1 :> RegFile(<<1>>)) @@ (F2 :> RegFile(<<1>>)) @@ (F3 :> RegFile(<<2>>))

Sources == {F1, F2, F3, SrcDir, SrcGone}

GoodSources == {F1, F2, F3}

DestRelPaths == {<<FileName("x", ".txt")>>, <<Comp("sub"), FileName("y", ".txt")>>}

Copydescriptor(source, rel, lip) ==
    [source_p |-> source, dest_relative_p |-> rel, link_in_place |-> lip]

\* create_copydescriptor over the sources; a source that is missing or a
\* directory is asked for at one destination
Copydescriptors ==
    {Copydescriptor(sp, rel, lip) :
        sp \in GoodSources, rel \in DestRelPaths, lip \in BOOLEAN}
    \cup {Copydescriptor(sp, <<FileName("x", ".txt")>>, lip) :
            sp \in {SrcDir, SrcGone}, lip \in BOOLEAN}

Batches == UNION {[1..n -> Copydescriptors] : n \in 0..MaxBatch}

\* what may already be at the destination /d/x.txt
DestEntries ==
    {RegFile(<<7>>), Directory, AbsLink(F3), AbsLink(Append(SrcD, Comp("z")))}

StoreName(base, n) == Append(DataD, VersionedName(base, n, ".txt"))

\* data_d holding x.v0001.txt .. x.v000N.txt; the first has the bytes of f1
InitialStore(n) ==
    [p \in {StoreName("x", k) : k \in 1..n} |->
        IF p = StoreName("x", 1) THEN RegFile(<<1>>) ELSE RegFile(<<2>>)]

BaseDirs == (DataD :> Directory) @@ (SrcD :> Directory) @@ (<<Comp("d")>> :> Directory)
            @@ (SrcDir :> Directory)

NoReturn == [op |-> "none", exc |-> "none", value |-> <<>>]

InitialFilesystems ==
    {BaseDirs @@ SourceFiles @@ InitialStore(n) : n \in 0..MaxPre}
    \cup {BaseDirs @@ SourceFiles @@ InitialStore(n)
            @@ (<<Comp("d"), FileName("x", ".txt")>> :> e) :
            n \in 0..MaxPre, e \in DestEntries}

InitCommon ==
    /\ dest_d = <<Comp("d")>>
    /\ pc = "idle"
    /\ idx = 1
    /\ output = EmptyMap
    /\ ret = NoReturn
    /\ fs0 = fs
    /\ passes = 0
    /\ copies = 0

\* the copies are not verified and the medium copies every byte as it is
PlainCopies ==
    /\ verify = FALSE
    /\ torn = {}

\* a call of the checksum engine that has not begun: the function called, its
\* arguments, the place in md5_parallel_match (pc), the chunks read by a_iter
\* and b_iter, checksum_a, the paths passed to md5_hash, and the outcome
EngineCall(op, file_a_p, file_b_p, file_a_checksum, file_b_checksum) ==
    [op |-> op, file_a_p |-> file_a_p, file_b_p |-> file_b_p,
     file_a_checksum |-> file_a_checksum, file_b_checksum |-> file_b_checksum,
     pc |-> "idle", a_iter |-> 0, b_iter |-> 0, checksum_a |-> EmptyStr,
     hashed |-> <<>>, exc |-> "none", value |-> None]

NoEngineCall == EngineCall("none", <<>>, <<>>, None, None)

\* the caller holds a list of copydescriptors to copy
Init ==
    /\ fs \in InitialFilesystems
    /\ session = Session(NoItems, DataD)
    /\ copydescriptors \in Batches
    /\ engine = NoEngineCall
    /\ InitCommon
    /\ PlainCopies

QueryItemLists == {<<F1>>, <<F3>>, <<F1, F3>>}

\* the caller has built a session of its own over data_d
InitSession ==
    /\ fs \in {BaseDirs @@ SourceFiles @@ InitialStore(n) : n \in 0..MaxPre}
             \cup {BaseDirs @@ SourceFiles @@ InitialStore(n)
                     @@ (<<Comp("d"), FileName("x", ".txt")>>
                            :> AbsLink(Append(SrcD, Comp("z")))) : n \in 0..MaxPre}
    /\ \E items \in QueryItemLists : session = Session(ItemList(items), DataD)
    /\ copydescriptors = <<>>
    /\ engine = NoEngineCall
    /\ InitCommon
    /\ PlainCopies

(***************************************************************************)
(* copy_files_deduplicated: the call up to the second loop, then one       *)
(* copydescriptor of the second loop per step, the return with the last.   *)
(***************************************************************************)
CallCopyFilesDeduplicated ==
    /\ pc # "running"
    /\ \E dd \in DestRoots :
         LET e == BatchPrecondition(fs, copydescriptors, dd, DataD)
         IN  /\ copydescriptors' = copydescriptors
             /\ dest_d' = dd
             /\ fs0' = fs
             /\ fs' = fs
             /\ idx' = 1
             /\ output' = EmptyMap
             /\ UNCHANGED <<passes, copies, engine, verify, torn>>
             /\ IF e # "none"
                THEN /\ pc' = "raised"
                     /\ ret' = [op |-> "copy_files_deduplicated", exc |-> e, value |-> <<>>]
                     /\ session' = session
                ELSE \* lines 294-295: do_canonical_scan() is a generator that is
                     \* not iterated, the new session's index stays empty
                     /\ session' = Session(NoItems, DataD)
                     /\ pc' = IF copydescriptors = <<>> THEN "returned" ELSE "running"
                     /\ ret' = [op |-> "copy_files_deduplicated", exc |-> "none",
                                value |-> <<>>]

ProcessCopydescriptor ==
    /\ pc = "running"
    /\ LET copydescriptor == copydescriptors[idx]
           dest_p == dest_d \o copydescriptor.dest_relative_p
           r == IF ~copydescriptor.link_in_place
                THEN copy_file_deduplicated(fs, session, copydescriptor.source_p,
                                            dest_p, DataD, verify)
                ELSE LET l == link_in_place(fs, copydescriptor.source_p, dest_p)
                     IN  Result(l.fs, session, l.exc, <<>>)
       IN  /\ fs' = r.fs
           /\ session' = r.session
           /\ ret' = [ret EXCEPT !.exc = r.exc]
           /\ IF r.exc # "none"
              THEN /\ pc' = "raised"
                   /\ UNCHANGED <<idx, output>>
              ELSE /\ idx' = idx + 1
                   /\ pc' = IF idx = Len(copydescriptors) THEN "returned" ELSE "running"
                   /\ output' = IF copydescriptor.link_in_place THEN output
                                ELSE Put(output, copydescriptor.source_p, r.value)
    /\ UNCHANGED <<copydescriptors, dest_d, fs0, passes, copies, engine,
                   verify, torn>>

(***************************************************************************)
(* A caller that builds a session itself, drives its generators to the     *)
(* end and calls copy_file_deduplicated with it.                           *)
(***************************************************************************)
\* the sources and destinations of the caller's own copy_file_deduplicated calls
DirectSources == {F1, F3, SrcGone}

DirectDestPaths ==
    {<<Comp("d"), FileName("x", ".txt")>>,
     <<Comp("d"), Comp("sub"), FileName("y", ".txt")>>,
     <<Comp("s2"), FileName("x", ".txt")>>}

DriveCanonicalScan ==
    /\ pc # "running"
    /\ \E walk \in Enumerations(ScannedFiles(fs, session.canonical_dir)) :
         session' = do_canonical_scan(session, fs, walk)
    /\ pc' = "idle"
    /\ ret' = NoReturn
    /\ UNCHANGED <<fs, copydescriptors, dest_d, idx, output, fs0, passes, copies, engine,
                   verify, torn>>

DriveQueryScan ==
    /\ pc # "running"
    /\ session.query_items.kind = "list"
    /\ session' = do_query_scan(session, fs)
    /\ pc' = "idle"
    /\ ret' = NoReturn
    /\ UNCHANGED <<fs, copydescriptors, dest_d, idx, output, fs0, passes, copies, engine,
                   verify, torn>>

DriveCompare ==
    /\ pc # "running"
    /\ passes < MaxPasses
    /\ \E ord \in Enumerations(DOMAIN session.canonical.files) :
         session' = do_compare(session, fs, ord)
    /\ passes' = passes + 1
    /\ pc' = "idle"
    /\ ret' = NoReturn
    /\ UNCHANGED <<fs, copydescriptors, dest_d, idx, output, fs0, copies, engine,
                   verify, torn>>

CallCopyFileDeduplicated ==
    /\ pc # "running"
    /\ copies < MaxCopies
    /\ copies' = copies + 1
    /\ \E source_p \in DirectSources, dest_p \in DirectDestPaths :
         LET r == copy_file_deduplicated(fs, session, source_p, dest_p, DataD, verify)
         IN  /\ fs' = r.fs
             /\ session' = r.session
             /\ ret' = [op |-> "copy_file_deduplicated", exc |-> r.exc, value |-> r.value]
             /\ copydescriptors' = <<Copydescriptor(source_p, dest_p, FALSE)>>
    /\ fs0' = fs
    /\ pc' = "idle"
    /\ UNCHANGED <<dest_d, idx, output, passes, engine,
                   verify, torn>>

Next ==
    \/ CallCopyFilesDeduplicated
    \/ ProcessCopydescriptor

Spec == Init /\ [][Next]_vars

\* the same batches with verified copies, on a medium that writes the copies
\* of one source file wrongly and those of the others as they are
TornSets == {{F3}}

InitVerified ==
    /\ fs \in InitialFilesystems
    /\ session = Session(NoItems, DataD)
    /\ copydescriptors \in Batches
    /\ engine = NoEngineCall
    /\ InitCommon
    /\ verify = TRUE
    /\ torn \in TornSets

SpecVerified == InitVerified /\ [][Next]_vars

NextSession ==
    \/ DriveCanonicalScan
    \/ DriveQueryScan
    \/ DriveCompare
    \/ CallCopyFileDeduplicated

SpecSession == InitSession /\ [][NextSession]_vars

(***************************************************************************)
(* The checksum engine called on its own: two files of any bytes, a link   *)
(* to the first, a dangling link, a directory and a path that is missing.  *)
(***************************************************************************)
Bytes == {1, 2}

\* files of up to one chunk and one byte
MaxLen == ChunkSize + 1

Contents == UNION {[1..n -> Bytes] : n \in 0..MaxLen}

EngD == <<Comp("e")>>

PA == Append(EngD, Comp("fa"))

PB == Append(EngD, Comp("fb"))

PLink == Append(EngD, Comp("la"))

PDangling == Append(EngD, Comp("lz"))

PDir == Append(EngD, Comp("dir"))

PGone == Append(EngD, Comp("gone"))

BadPaths == {PLink, PDangling, PDir, PGone}

PathPairs ==
    {<<PA, PB>>, <<PA, PA>>}
    \cup {<<bad, PB>> : bad \in BadPaths}
    \cup {<<PA, bad>> : bad \in BadPaths}
    \cup {<<bad, bad>> : bad \in BadPaths}

EngineFilesystems ==
    {(EngD :> Directory) @@ (PA :> RegFile(ca)) @@ (PB :> RegFile(cb))
        @@ (PLink :> AbsLink(PA)) @@ (PDangling :> AbsLink(PGone)) @@ (PDir :> Directory) :
        ca \in Contents, cb \in Contents}

\* a checksum kept from an earlier state of a file
StaleChecksum == Digest(<<0>>)

\* what a caller passes as file_a_checksum / file_b_checksum: nothing, the
\* checksum of the file, or a stale one
Hows == {"none", "right", "stale"}

\* src and dst of the verified copies made: onto a new path and onto a file
CopyPairs == {<<PA, PGone>>, <<PB, PGone>>, <<PA, PB>>}

Supplied(f, file_p, how) ==
    IF how = "none" THEN None
    ELSE IF how = "right" /\ isfile(f, file_p) THEN md5_hash(ReadFile(f, file_p))
    ELSE StaleChecksum

InitEngine ==
    /\ fs \in EngineFilesystems
    /\ engine \in
          {EngineCall("compare_files", pp[1], pp[2],
                      Supplied(fs, pp[1], ha), Supplied(fs, pp[2], hb)) :
              pp \in PathPairs, ha \in Hows, hb \in Hows}
          \cup {EngineCall("md5_parallel_match", pp[1], pp[2], None, None) :
                  pp \in PathPairs}
          \cup {EngineCall("md5_hash", pp[1], pp[1], None, None) : pp \in PathPairs}
          \cup {EngineCall("verified_copy_file", pp[1], pp[2], None, None) :
                  pp \in CopyPairs}
    /\ session = Session(NoItems, DataD)
    /\ copydescriptors = <<>>
    /\ InitCommon
    /\ PlainCopies

EngineDone(e, v) == [engine EXCEPT !.pc = "done", !.exc = e, !.value = v]

\* compare_files up to its return, or up to its call of md5_parallel_match
CallCompareFiles ==
    /\ engine.op = "compare_files"
    /\ engine.pc = "idle"
    /\ LET a == engine.file_a_p
           b == engine.file_b_p
           acs == engine.file_a_checksum
           bcs == engine.file_b_checksum
       IN  engine' =
             IF ~CompareFilesValid(fs, a, b) THEN EngineDone("AssertionError", None)
             ELSE IF UsesParallelMatch(fs, a, b, acs, bcs)
                  THEN [engine EXCEPT !.pc = "next_a"]
                  ELSE [engine EXCEPT !.pc = "done",
                                      !.hashed = md5_hash_calls(fs, a, b, acs, bcs),
                                      !.value = compare_files(fs, a, b, acs, bcs)]
    /\ UNCHANGED <<fs, session, copydescriptors, dest_d, pc, idx, output, ret, fs0,
                   passes, copies, verify, torn>>

\* md5_parallel_match called by itself: the two generators are made (lines
\* 66-69), nothing is opened or read yet
CallMd5ParallelMatch ==
    /\ engine.op = "md5_parallel_match"
    /\ engine.pc = "idle"
    /\ engine' = [engine EXCEPT !.pc = "next_a"]
    /\ UNCHANGED <<fs, session, copydescriptors, dest_d, pc, idx, output, ret, fs0,
                   passes, copies, verify, torn>>

\* line 72: checksum_a = next(a_iter); StopIteration returns checksum_a
ParallelNextA ==
    /\ engine.pc = "next_a"
    /\ LET r == generator_next(fs, engine.file_a_p, engine.a_iter)
       IN  engine' =
             IF r.exc # "none" THEN EngineDone(r.exc, None)
             ELSE IF r.stop THEN EngineDone("none", engine.checksum_a)
             ELSE [engine EXCEPT !.pc = "next_b", !.a_iter = @ + 1,
                                 !.checksum_a = r.digest]
    /\ UNCHANGED <<fs, session, copydescriptors, dest_d, pc, idx, output, ret, fs0,
                   passes, copies, verify, torn>>

\* lines 73-75: checksum_b = next(b_iter) and the comparison; StopIteration
\* returns checksum_a
ParallelNextB ==
    /\ engine.pc = "next_b"
    /\ LET r == generator_next(fs, engine.file_b_p, engine.b_iter)
       IN  engine' =
             IF r.exc # "none" THEN EngineDone(r.exc, None)
             ELSE IF r.stop THEN EngineDone("none", engine.checksum_a)
             ELSE IF checksums_differ(engine.checksum_a, r.digest)
                  THEN [engine EXCEPT !.pc = "done", !.b_iter = @ + 1, !.value = NoMatch]
                  ELSE [engine EXCEPT !.pc = "next_a", !.b_iter = @ + 1]
    /\ UNCHANGED <<fs, session, copydescriptors, dest_d, pc, idx, output, ret, fs0,
                   passes, copies, verify, torn>>

\* md5_hash called by itself
CallMd5Hash ==
    /\ engine.op = "md5_hash"
    /\ engine.pc = "idle"
    /\ LET r == md5_hash_file(fs, engine.file_a_p)
       IN  engine' = [engine EXCEPT !.pc = "done", !.exc = r.exc, !.value = r.value,
                                    !.hashed = IF r.exc = "none"
                                               THEN <<engine.file_a_p>> ELSE <<>>]
    /\ UNCHANGED <<fs, session, copydescriptors, dest_d, pc, idx, output, ret, fs0,
                   passes, copies, verify, torn>>

\* verified_copy_file(src, dst)
CallVerifiedCopyFile ==
    /\ engine.op = "verified_copy_file"
    /\ engine.pc = "idle"
    /\ LET r == verified_copy_file(fs, engine.file_a_p, engine.file_b_p)
       IN  /\ fs' = r.fs
           /\ engine' = EngineDone(r.exc, None)
    /\ UNCHANGED <<session, copydescriptors, dest_d, pc, idx, output, ret, fs0,
                   passes, copies, verify, torn>>

NextEngine ==
    \/ CallVerifiedCopyFile
    \/ CallCompareFiles
    \/ CallMd5ParallelMatch
    \/ ParallelNextA
    \/ ParallelNextB
    \/ CallMd5Hash

SpecEngine == InitEngine /\ [][NextEngine]_vars

(***************************************************************************)
(* The attribute index on its own: two files, one without an extension,    *)
(* that are rewritten while the index is built by full scans and single    *)
(* appends and is queried.  The canonical directory is the root, so that a *)
(* scan and an append give a file the same rel_path.                       *)
(***************************************************************************)
IdxD == <<Comp("c")>>

IA == Append(IdxD, FileName("a", ".txt"))

IB == Append(IdxD, Comp("b"))

IndexPaths == {IA, IB}

IndexContents == {<<1>>, <<1, 2>>}

\* the instant of a later write
Later == Epoch + 1

\* a regular file written at time t
TimedFile(c, t) ==
    [kind |-> "file", content |-> c, target |-> NoTarget, ctime |-> t, mtime |-> t]

\* the arguments of the queries made: the size and the optional attributes
Query(size, name, file_type, parent, rel_path, ctime, mtime) ==
    [size |-> size, name |-> name, file_type |-> file_type, parent |-> parent,
     rel_path |-> rel_path, ctime |-> ctime, mtime |-> mtime]

OptionalArgs ==
    { Query(0, NoArg, NoArg, NoArg, NoArg, NoArg, NoArg),
      Query(0, Some(BaseName(IA)), NoArg, NoArg, NoArg, NoArg, NoArg),
      Query(0, Some(Comp("z")), NoArg, NoArg, NoArg, NoArg, NoArg),
      Query(0, NoArg, Some(".txt"), NoArg, NoArg, NoArg, NoArg),
      Query(0, NoArg, Some(""), NoArg, NoArg, NoArg, NoArg),
      Query(0, NoArg, Some(".bin"), NoArg, NoArg, NoArg, NoArg),
      Query(0, Some(BaseName(IA)), Some(".bin"), NoArg, NoArg, NoArg, NoArg),
      Query(0, NoArg, NoArg, Some(BaseName(IdxD)), NoArg, NoArg, NoArg),
      Query(0, NoArg, NoArg, NoArg, Some(relpath(IB, <<>>)), NoArg, NoArg),
      Query(0, NoArg, NoArg, NoArg, NoArg, Some(Epoch), NoArg),
      Query(0, NoArg, NoArg, NoArg, NoArg, NoArg, Some(Later)),
      Query(0, NoArg, NoArg, NoArg, NoArg, NoArg, Some(0)) }

Queries == {[q EXCEPT !.size = n] : q \in OptionalArgs, n \in 1..2}

InitIndex ==
    /\ \E ca, cb \in IndexContents :
         fs = (IdxD :> Directory) @@ (IA :> TimedFile(ca, Epoch))
                @@ (IB :> TimedFile(cb, Epoch))
    /\ session = Session(NoItems, <<>>)
    /\ copydescriptors = <<>>
    /\ engine = NoEngineCall
    /\ InitCommon
    /\ PlainCopies

\* the environment rewrites a file of the canonical directory
RewriteFile ==
    /\ \E p \in IndexPaths, c \in IndexContents :
         /\ fs[p] # TimedFile(c, Later)
         /\ fs' = Put(fs, p, TimedFile(c, Later))
    /\ UNCHANGED <<session, copydescriptors, dest_d, pc, idx, output, ret, fs0, passes,
                   copies, engine, verify, torn>>

\* Session.do_canonical_scan driven to its end
CallDoCanonicalScan ==
    /\ \E walk \in Enumerations(ScannedFiles(fs, session.canonical_dir)) :
         session' = do_canonical_scan(session, fs, walk)
    /\ ret' = NoReturn
    /\ UNCHANGED <<fs, copydescriptors, dest_d, pc, idx, output, fs0, passes, copies, engine,
                   verify, torn>>

\* Session.append_to_canonical_scan(file_p)
CallAppendToCanonicalScan ==
    /\ \E file_p \in IndexPaths : session' = append_to_canonical_scan(session, fs, file_p)
    /\ ret' = NoReturn
    /\ UNCHANGED <<fs, copydescriptors, dest_d, pc, idx, output, fs0, passes, copies, engine,
                   verify, torn>>

\* CanonicalFiles.get_intersection(...) on the canonical index
CallGetIntersection ==
    /\ \E q \in Queries :
         ret' = [op |-> "get_intersection", exc |-> "none", args |-> q,
                 value |-> get_intersection(session.canonical, q.size, q.name, q.file_type,
                                            q.parent, q.rel_path, q.ctime, q.mtime)]
    /\ UNCHANGED <<fs, session, copydescriptors, dest_d, pc, idx, output, fs0, passes,
                   copies, engine, verify, torn>>

NextIndex ==
    \/ RewriteFile
    \/ CallDoCanonicalScan
    \/ CallAppendToCanonicalScan
    \/ CallGetIntersection

SpecIndex == InitIndex /\ [][NextIndex]_vars

(***************************************************************************)
(* One comparison pass: a canonical directory /c and a query directory /q  *)
(* of two files each, scanned, then disturbed from outside (a file         *)
(* vanishes, becomes a directory or becomes a symbolic link), then         *)
(* compared.  The query items are files, one of them possibly a file of    *)
(* the canonical directory itself.                                         *)
(***************************************************************************)
CanonD == <<Comp("c")>>

QueryD == <<Comp("q")>>

CA == Append(CanonD, FileName("a", ".txt"))

CD == Append(CanonD, FileName("d", ".txt"))

QA == Append(QueryD, FileName("a", ".txt"))

QC == Append(QueryD, FileName("c", ".txt"))

\* files without an extension: their file_type is the empty string
CN == Append(CanonD, Comp("n"))

QN == Append(QueryD, Comp("n"))

\* a regular file outside both directories, the target of the links made
LT == <<Comp("t")>>

Hello == <<1>>

World == <<2>>

Longer == <<1, 1>>

Other == <<2, 2>>

CompareFilesystems ==
    { (CanonD :> Directory) @@ (QueryD :> Directory) @@ (LT :> RegFile(Hello))
        @@ (CA :> RegFile(Hello)) @@ (CD :> RegFile(cd))
        @@ (QA :> RegFile(qa)) @@ (QC :> RegFile(qc))
        @@ (CN :> RegFile(Other)) @@ (QN :> RegFile(World)) :
        cd \in {Hello, World, Longer}, qa \in {Hello, World, Longer}, qc \in {Hello, World} }

CompareItemLists == {<<QA, QC>>, <<CA, QC>>, <<CA>>, <<QN, QA>>}

FlagSets ==
    { DefaultFlags,
      Flags(TRUE, FALSE, FALSE, FALSE, FALSE, FALSE, FALSE),
      Flags(FALSE, TRUE, FALSE, FALSE, FALSE, FALSE, FALSE),
      Flags(TRUE, FALSE, FALSE, FALSE, FALSE, FALSE, TRUE),
      Flags(FALSE, FALSE, FALSE, FALSE, FALSE, FALSE, TRUE) }

\* the files that may be disturbed between the scans and the pass
DisturbPaths == {CA, CD, QA, QC}

\* the number of files disturbed since the filesystem was made
MaxDisturbed == 1

Disturbed == {p \in DisturbPaths : p \notin DOMAIN fs \/ fs[p] # fs0[p]}

InitCompare ==
    /\ fs \in CompareFilesystems
    /\ \E items \in CompareItemLists : session = Session(ItemList(items), CanonD)
    /\ copydescriptors = <<>>
    /\ engine = NoEngineCall
    /\ InitCommon
    /\ PlainCopies

\* Session.do_canonical_scan driven to its end
ScanCanonical ==
    /\ pc = "idle"
    /\ \E walk \in Enumerations(ScannedFiles(fs, session.canonical_dir)) :
         session' = do_canonical_scan(session, fs, walk)
    /\ UNCHANGED <<fs, copydescriptors, dest_d, pc, idx, output, ret, fs0, passes, copies,
                   engine, verify, torn>>

\* Session.do_query_scan driven to its end, the query items being files
ScanQuery ==
    /\ pc = "idle"
    /\ \A i \in DOMAIN session.query_items.items :
         isfile(fs, session.query_items.items[i]) /\ ~islink(fs, session.query_items.items[i])
    /\ session' = do_query_scan(session, fs)
    /\ UNCHANGED <<fs, copydescriptors, dest_d, pc, idx, output, ret, fs0, passes, copies,
                   engine, verify, torn>>

\* after the scans a file vanishes, or a directory or a link takes its place
Disturb ==
    /\ pc = "idle"
    /\ session.canonical.files # EmptyMap
    /\ session.query.order # <<>>
    /\ Cardinality(Disturbed) < MaxDisturbed
    /\ \E p \in DisturbPaths \ Disturbed :
         fs' \in {Remove(fs, p), Put(fs, p, Directory), Put(fs, p, AbsLink(LT))}
    /\ UNCHANGED <<session, copydescriptors, dest_d, pc, idx, output, ret, fs0, passes,
                   copies, engine, verify, torn>>

\* Session.do_compare(...) driven to its end
CallDoCompare ==
    /\ pc = "idle"
    /\ \E flags \in FlagSets, ord \in Enumerations(DOMAIN session.canonical.files) :
         LET r == do_compare_pass(session, fs, ord, flags)
         IN  /\ session' = r.s
             /\ ret' = [op |-> "do_compare", exc |-> r.exc, value |-> r.calls,
                        args |-> flags]
    /\ pc' = "compared"
    /\ passes' = passes + 1
    /\ UNCHANGED <<fs, copydescriptors, dest_d, idx, output, fs0, copies, engine,
                   verify, torn>>

\* Session.do_compare(...) pulled until it has yielded count n, then dropped;
\* with skip_checksum and without name the first pull raises, nothing is yielded
AbandonDoCompare ==
    /\ pc = "idle"
    /\ \E flags \in FlagSets, ord \in Enumerations(DOMAIN session.canonical.files),
          n \in 1..Len(session.query.order) :
         /\ ~(flags.skip_checksum /\ ~flags.name)
         /\ LET r == do_compare_abandoned(session, fs, ord, flags, n)
            IN  /\ session' = r.s
                /\ ret' = [op |-> "do_compare_abandoned", exc |-> r.exc,
                           value |-> r.calls, args |-> flags, count |-> n]
    /\ pc' = "compared"
    /\ passes' = passes + 1
    /\ UNCHANGED <<fs, copydescriptors, dest_d, idx, output, fs0, copies, engine,
                   verify, torn>>

NextCompare ==
    \/ ScanCanonical
    \/ ScanQuery
    \/ Disturb
    \/ CallDoCompare
    \/ AbandonDoCompare

SpecCompare == InitCompare /\ [][NextCompare]_vars

(***************************************************************************)
(* The same caller keeps the session and drives do_compare again: the     *)
(* session's results are made once, in __init__, and every pass adds to    *)
(* them.                                                                   *)
(***************************************************************************)
\* the number of passes driven on one session
MaxRepeats == 2

\* Session.do_compare(...) driven to its end on a session already compared
CompareAgain ==
    /\ pc = "compared"
    /\ passes < MaxRepeats
    /\ \E flags \in FlagSets, ord \in Enumerations(DOMAIN session.canonical.files) :
         LET r == do_compare_pass(session, fs, ord, flags)
         IN  /\ session' = r.s
             /\ ret' = [op |-> "do_compare", exc |-> r.exc, value |-> r.calls,
                        args |-> flags]
    /\ passes' = passes + 1
    /\ UNCHANGED <<fs, copydescriptors, dest_d, pc, idx, output, fs0, copies, engine,
                   verify, torn>>

NextRepeat ==
    \/ ScanCanonical
    \/ ScanQuery
    \/ Disturb
    \/ CallDoCompare
    \/ CompareAgain

SpecRepeat == InitCompare /\ [][NextRepeat]_vars

(***************************************************************************)
(* Properties.                                                             *)
(***************************************************************************)
\* the regular files lying in data_d
DataFiles(f) == {p \in DOMAIN f : IsDescendant(p, DataD) /\ f[p].kind = "file"}

\* everything below data_d
DataPart(f) == [p \in {q \in DOMAIN f : IsDescendant(q, DataD)} |-> f[p]]

\* dest_p of the i-th copydescriptor (line 299)
DestP(i) == dest_d \o copydescriptors[i].dest_relative_p

BatchCalled == ret.op = "copy_files_deduplicated"

\* the last batch call got past the checks of lines 282-290
BatchAdmitted ==
    BatchCalled /\ BatchPrecondition(fs0, copydescriptors, dest_d, DataD) = "none"

\* C1: two copydescriptors, not link_in_place, whose sources hold the same
\* bytes and whose destinations have different base names, copied into an
\* empty data_d: exactly one physical file is in data_d afterwards and both
\* destinations are symbolic links that resolve to it.
C1_OnePhysicalFile ==
    ( /\ BatchCalled
      /\ pc = "returned"
      /\ Len(copydescriptors) = 2
      /\ ~copydescriptors[1].link_in_place
      /\ ~copydescriptors[2].link_in_place
      /\ copydescriptors[1].source_p # copydescriptors[2].source_p
      /\ ReadFile(fs0, copydescriptors[1].source_p)
            = ReadFile(fs0, copydescriptors[2].source_p)
      /\ BaseName(DestP(1)).base # BaseName(DestP(2)).base
      /\ DOMAIN DataPart(fs0) = {} )
    => /\ Cardinality(DataFiles(fs)) = 1
       /\ \A i \in 1..2 :
            /\ islink(fs, DestP(i))
            /\ Resolve(fs, DestP(i), 3).ok
            /\ Resolve(fs, DestP(i), 3).path \in DataFiles(fs)

\* C2: when the first copydescriptor is about to be handled, every file
\* already in data_d is a member of the session's canonical index.
C2_CanonicalScannedFirst ==
    (pc = "running" /\ idx = 1) => DataFiles(fs) \subseteq DOMAIN session.canonical.files

\* the source and destination of the caller's last copy_file_deduplicated call
DirectSource == copydescriptors[1].source_p

DirectDest == copydescriptors[1].dest_relative_p

\* C3: when copy_file_deduplicated finds a duplicate recorded for source_p,
\* nothing in data_d is created or changed, and the path it returns, which
\* the link at dest_p resolves to, is the first match recorded for source_p.
C3_FirstRecordedMatch ==
    ( /\ ret.op = "copy_file_deduplicated"
      /\ ret.exc # "ValueError"
      /\ DirectSource \in DOMAIN session.duplicates )
    => /\ DataPart(fs) = DataPart(fs0)
       /\ ret.exc = "none" =>
            /\ ret.value = session.duplicates[DirectSource][1]
            /\ islink(fs, DirectDest)
            /\ Resolve(fs, DirectDest, 3) = [ok |-> TRUE, path |-> ret.value]

\* C3 happens: a source with two recorded matches was resolved
C3_Witness ==
    /\ ret.op = "copy_file_deduplicated"
    /\ ret.exc = "none"
    /\ DirectSource \in DOMAIN session.duplicates
    /\ Len(session.duplicates[DirectSource]) >= 2

\* the smallest positive version of (base, ext) that is not in data_d
SmallestUnused(f, name) ==
    CHOOSE n \in 1..(MaxPre + 2) :
        /\ ~exists(f, Append(DataD, VersionedName(name.base, n, name.ext)))
        /\ \A m \in 1..(n - 1) :
              exists(f, Append(DataD, VersionedName(name.base, m, name.ext)))

\* C4: a copy that finds no duplicate is written to the smallest version N
\* whose name is not yet in data_d, and that path is what is returned.
C4_SmallestUnusedVersion ==
    ( /\ BatchAdmitted
      /\ pc \in {"returned", "raised"}
      /\ Len(copydescriptors) = 1
      /\ ~copydescriptors[1].link_in_place )
    => LET name == BaseName(DestP(1))
           target == Append(DataD, VersionedName(name.base, SmallestUnused(fs0, name),
                                                 name.ext))
       IN  /\ target \in DOMAIN fs
           /\ fs[target] = RegFile(ReadFile(fs0, copydescriptors[1].source_p))
           /\ pc = "returned" => output[copydescriptors[1].source_p] = target

\* C5: no step changes or removes a file that is already in data_d.
C5_NeverOverwrites ==
    [][\A p \in DOMAIN DataPart(fs) : p \in DOMAIN fs' /\ fs'[p] = fs[p]]_vars

\* C5 happens: a copy was added to a data_d that already held files
C5_Witness ==
    /\ BatchCalled
    /\ pc = "returned"
    /\ DataFiles(fs0) # {}
    /\ DataFiles(fs) # DataFiles(fs0)

\* C6: a call with dest_d inside data_d raises before anything is created
\* and before any copydescriptor is processed.
C6_NestedDestRejected ==
    (BatchCalled /\ IsDescendant(dest_d, DataD))
    => /\ pc = "raised"
       /\ ret.exc = "ValueError"
       /\ fs = fs0
       /\ idx = 1
       /\ output = EmptyMap

\* C6 happens: a list of good copydescriptors was refused for its dest_d
C6_Witness ==
    /\ BatchCalled
    /\ pc = "raised"
    /\ IsDescendant(dest_d, DataD)
    /\ copydescriptors # <<>>
    /\ \A i \in 1..Len(copydescriptors) : ~BadSource(fs0, copydescriptors[i])

\* C7: a call with a copydescriptor, at any place of the list, whose source
\* does not exist or is not a file raises before anything is changed and
\* before any copydescriptor is processed.
C7_BadSourceFailsBatch ==
    (BatchCalled /\ \E i \in 1..Len(copydescriptors) : BadSource(fs0, copydescriptors[i]))
    => /\ pc = "raised"
       /\ ret.exc = "ValueError"
       /\ fs = fs0
       /\ idx = 1
       /\ output = EmptyMap

\* C7 happens: the bad copydescriptor comes after a good one to be copied
C7_Witness ==
    /\ BatchCalled
    /\ pc = "raised"
    /\ ~IsDescendant(dest_d, DataD)
    /\ ~StartsWith(dest_d, DataD)
    /\ Len(copydescriptors) = 2
    /\ ~BadSource(fs0, copydescriptors[1])
    /\ ~copydescriptors[1].link_in_place
    /\ BadSource(fs0, copydescriptors[2])

\* C8: processing a link_in_place copydescriptor leaves data_d as it is, and
\* afterwards the destination is a symbolic link to the absolute source path.
C8_LinkInPlace ==
    [][(pc = "running" /\ copydescriptors[idx].link_in_place)
       => /\ DataPart(fs') = DataPart(fs)
          /\ DestP(idx) \in DOMAIN fs'
          /\ fs'[DestP(idx)] = AbsLink(copydescriptors[idx].source_p)]_vars

\* C9: a regular file, a link to an existing target or a dangling link at the
\* destination is replaced by the new link; the step does not fail on it.
C9_OccupiedDestReplaced ==
    [][(/\ pc = "running"
        /\ DestP(idx) \in DOMAIN fs
        /\ fs[DestP(idx)].kind \in {"file", "link"})
       => /\ ret'.exc \notin {"FileExistsError", "IsADirectoryError"}
          /\ ret'.exc = "none" =>
               /\ islink(fs', DestP(idx))
               /\ copydescriptors[idx].link_in_place =>
                    fs'[DestP(idx)] = AbsLink(copydescriptors[idx].source_p)
               /\ ~copydescriptors[idx].link_in_place =>
                    Resolve(fs', DestP(idx), 3).path \in DataFiles(fs')]_vars

\* C10 as stated: the returned mapping has a key for the source of every
\* copydescriptor, its value the file in data_d holding that source's bytes.
C10_KeyForEveryDescriptor ==
    (BatchCalled /\ pc = "returned")
    => \A i \in 1..Len(copydescriptors) :
         LET source_p == copydescriptors[i].source_p
         IN  /\ source_p \in DOMAIN output
             /\ output[source_p] \in DataFiles(fs)
             /\ fs[output[source_p]].content = ReadFile(fs, source_p)

\* C10 amended: the returned mapping has a key for exactly the sources of
\* the copydescriptors that are not link_in_place, its value the file in
\* data_d holding that source's bytes.
C10_KeyForEveryCopiedSource ==
    (BatchCalled /\ pc = "returned")
    => /\ DOMAIN output =
            {copydescriptors[i].source_p :
                i \in {j \in 1..Len(copydescriptors) : ~copydescriptors[j].link_in_place}}
       /\ \A source_p \in DOMAIN output :
            /\ output[source_p] \in DataFiles(fs)
            /\ fs[output[source_p]].content = ReadFile(fs, source_p)

\* C10 happens: a list with a linked and a copied source has returned
C10_Witness ==
    /\ BatchCalled
    /\ pc = "returned"
    /\ \E i, j \in 1..Len(copydescriptors) :
         /\ copydescriptors[i].link_in_place
         /\ ~copydescriptors[j].link_in_place
         /\ copydescriptors[i].source_p # copydescriptors[j].source_p

\* the regular files written since the last call began
WrittenFiles ==
    {p \in DOMAIN fs : fs[p].kind = "file" /\ ~(p \in DOMAIN fs0 /\ fs0[p] = fs[p])}

\* the copydescriptors of the last call processed so far, not link_in_place
CopiedSoFar == {i \in 1..(idx - 1) : ~copydescriptors[i].link_in_place}

\* C11 as stated: what a batch copy has produced under dest_d outside
\* link-in-place mode is symbolic links only: no regular file it has written
\* lies under dest_d.
C11_DestHoldsOnlyLinks ==
    BatchAdmitted
    => /\ \A p \in WrittenFiles : ~IsDescendant(p, dest_d)
       /\ \A i \in CopiedSoFar : islink(fs, DestP(i))

\* C11 amended: every destination a batch copy has produced outside
\* link-in-place mode is a symbolic link, and every regular file it has
\* written lies in data_d (so none lies under dest_d unless data_d does).
C11_CopiesLieInDataDir ==
    BatchAdmitted
    => /\ \A p \in WrittenFiles : IsDescendant(p, DataD)
       /\ \A i \in CopiedSoFar : islink(fs, DestP(i))

\* C11 happens: a copy was made by a call whose dest_d holds data_d
C11_Witness ==
    /\ BatchAdmitted
    /\ pc = "returned"
    /\ IsDescendant(DataD, dest_d)
    /\ CopiedSoFar # {}
    /\ WrittenFiles # {}

\* no two files of data_d have the same base name and extension (differing
\* in version only) and the same bytes
OneFilePerContentAndName(f) ==
    \A p, q \in DataFiles(f) :
        ( /\ p # q
          /\ BaseName(p).base = BaseName(q).base
          /\ BaseName(p).ext = BaseName(q).ext )
        => f[p].content # f[q].content

ArgA == engine.file_a_p

ArgB == engine.file_b_p

\* p is a regular file, not a symbolic link
Regular(p) == p \in DOMAIN fs /\ fs[p].kind = "file"

\* p does not exist, is a directory or is a symbolic link
Invalid(p) == p \notin DOMAIN fs \/ fs[p].kind \in {"dir", "link"}

CompareReturned == engine.op = "compare_files" /\ engine.pc = "done"

ParallelReturned == engine.op = "md5_parallel_match" /\ engine.pc = "done"

\* no file was read: no md5_hash pass, no chunk read by a generator
NothingRead == engine.hashed = <<>> /\ engine.a_iter = 0 /\ engine.b_iter = 0

\* C13: compare_files on two regular files at distinct paths that hold the
\* same bytes (of any length, none included), with no checksum supplied,
\* returns md5_hash of the first.
C13_IdenticalFilesGiveDigest ==
    ( /\ CompareReturned
      /\ ArgA # ArgB
      /\ Regular(ArgA) /\ Regular(ArgB)
      /\ fs[ArgA].content = fs[ArgB].content
      /\ engine.file_a_checksum = None /\ engine.file_b_checksum = None )
    => /\ engine.exc = "none"
       /\ engine.value = md5_hash(fs[ArgA].content)

\* some byte offset holds different bytes in ca and cb
Differ(ca, cb) == \E k \in 1..Min(Len(ca), Len(cb)) : ca[k] # cb[k]

\* the number of the chunk holding the first such offset
FirstDifferingChunk(ca, cb) ==
    LET k == CHOOSE k \in 1..Min(Len(ca), Len(cb)) :
                 ca[k] # cb[k] /\ \A j \in 1..(k - 1) : ca[j] = cb[j]
    IN  (k + ChunkSize - 1) \div ChunkSize

\* C14: md5_parallel_match on two files whose first differing byte lies in
\* chunk i never reads more than i chunks of either file, and returns False.
C14_StopsAtFirstDifferingChunk ==
    ( /\ engine.op = "md5_parallel_match"
      /\ Regular(ArgA) /\ Regular(ArgB)
      /\ Differ(fs[ArgA].content, fs[ArgB].content) )
    => LET i == FirstDifferingChunk(fs[ArgA].content, fs[ArgB].content)
       IN  /\ engine.a_iter <= i
           /\ engine.b_iter <= i
           /\ engine.pc = "done" => engine.exc = "none" /\ engine.value = NoMatch

\* C14 happens: two files of two chunks that differ in the first chunk were
\* told apart after one chunk of each
C14_Witness ==
    /\ ParallelReturned
    /\ Regular(ArgA) /\ Regular(ArgB)
    /\ NumChunks(fs[ArgA].content) = 2
    /\ NumChunks(fs[ArgB].content) = 2
    /\ Differ(fs[ArgA].content, fs[ArgB].content)
    /\ FirstDifferingChunk(fs[ArgA].content, fs[ArgB].content) = 1
    /\ engine.value = NoMatch
    /\ engine.a_iter = 1
    /\ engine.b_iter = 1

\* C15: md5_parallel_match returns a value other than False only when both
\* generators are exhausted, the two files having the same number of chunks
\* and the same bytes, and the value is then the digest of the whole file.
C15_MatchOnlyWhenBothExhausted ==
    ( /\ ParallelReturned
      /\ Regular(ArgA) /\ Regular(ArgB)
      /\ engine.exc = "none"
      /\ engine.value # NoMatch )
    => /\ fs[ArgA].content = fs[ArgB].content
       /\ engine.a_iter = NumChunks(fs[ArgA].content)
       /\ engine.b_iter = NumChunks(fs[ArgB].content)
       /\ engine.value = md5_hash(fs[ArgA].content)

\* C16: compare_files on one and the same path returns md5_hash of the file
\* and reads it in one md5_hash pass only, whatever checksums are supplied.
C16_SamePathHashedOnce ==
    (CompareReturned /\ ArgA = ArgB /\ Regular(ArgA))
    => /\ engine.exc = "none"
       /\ engine.value = md5_hash(fs[ArgA].content)
       /\ engine.hashed = <<ArgA>>
       /\ engine.a_iter = 0
       /\ engine.b_iter = 0

\* C16 happens: a file was compared with itself with two checksums supplied
C16_Witness ==
    /\ CompareReturned
    /\ ArgA = ArgB
    /\ Regular(ArgA)
    /\ fs[ArgA].content # <<>>
    /\ engine.file_a_checksum = StaleChecksum
    /\ engine.file_b_checksum = StaleChecksum
    /\ engine.value = md5_hash(fs[ArgA].content)

\* C17: compare_files on two distinct regular files of different sizes
\* returns False and reads neither file, whatever checksums are supplied.
C17_SizesDifferNoRead ==
    ( /\ CompareReturned
      /\ ArgA # ArgB
      /\ Regular(ArgA) /\ Regular(ArgB)
      /\ Len(fs[ArgA].content) # Len(fs[ArgB].content) )
    => /\ engine.exc = "none"
       /\ engine.value = NoMatch
       /\ NothingRead

\* C17 happens: two files of different sizes with equal supplied checksums
C17_Witness ==
    /\ CompareReturned
    /\ ArgA # ArgB
    /\ Regular(ArgA) /\ Regular(ArgB)
    /\ Len(fs[ArgA].content) # Len(fs[ArgB].content)
    /\ engine.file_a_checksum # None
    /\ engine.file_a_checksum = engine.file_b_checksum
    /\ engine.value = NoMatch

\* C18: compare_files with a path that does not exist, is a directory or is
\* a symbolic link reads nothing and ends in AssertionError, also when the
\* two paths are the same, the sizes differ or checksums are supplied.
C18_InvalidPathRejected ==
    (engine.op = "compare_files" /\ (Invalid(ArgA) \/ Invalid(ArgB)))
    => /\ NothingRead
       /\ engine.pc \in {"idle", "done"}
       /\ engine.pc = "done" => engine.exc = "AssertionError" /\ engine.value = None

\* C18 happens: a symbolic link to a file was compared with itself
C18_Witness ==
    /\ CompareReturned
    /\ ArgA = ArgB
    /\ ArgA \in DOMAIN fs
    /\ fs[ArgA].kind = "link"
    /\ isfile(fs, ArgA)
    /\ engine.exc = "AssertionError"

\* C19 as stated: md5_hash fails and returns no digest on a path that does
\* not exist, is a directory or is a symbolic link, and returns the digest
\* of a regular file that is not a link.
C19_Md5HashValidates ==
    (engine.op = "md5_hash" /\ engine.pc = "done")
    => IF Invalid(ArgA)
       THEN engine.exc # "none" /\ engine.value = None
       ELSE engine.exc = "none" /\ engine.value = md5_hash(fs[ArgA].content)

\* C19 amended: md5_hash fails with the error of open on a path that leads
\* to nothing (missing, dangling link) or to a directory; on a regular file,
\* and on a symbolic link to one, it returns the digest of the file's bytes.
C19_Md5HashFollowsLinks ==
    (engine.op = "md5_hash" /\ engine.pc = "done")
    => LET end == IF ArgA \in DOMAIN fs /\ fs[ArgA].kind = "link"
                  THEN fs[ArgA].target.comps ELSE ArgA
       IN  IF end \notin DOMAIN fs
           THEN engine.exc = "FileNotFoundError" /\ engine.value = None
           ELSE IF fs[end].kind = "dir"
                THEN engine.exc = "IsADirectoryError" /\ engine.value = None
                ELSE engine.exc = "none" /\ engine.value = md5_hash(fs[end].content)

\* C19 happens: md5_hash was given a symbolic link to a file with bytes
C19_Witness ==
    /\ engine.op = "md5_hash"
    /\ engine.pc = "done"
    /\ ArgA = PLink
    /\ fs[PA].content # <<>>
    /\ engine.value = md5_hash(fs[PA].content)

\* the checksum compare_files uses for a file: the one supplied, else md5_hash
ChecksumUsed(p, supplied) == IF supplied = None THEN md5_hash(fs[p].content) ELSE supplied

\* C20: compare_files on two distinct regular files of one size with a
\* checksum supplied for at least one passes to md5_hash exactly the files
\* without a supplied checksum, and returns the checksum of file b if the two
\* checksums are equal, False if not.
C20_HashesOnlyMissingChecksums ==
    ( /\ CompareReturned
      /\ ArgA # ArgB
      /\ Regular(ArgA) /\ Regular(ArgB)
      /\ Len(fs[ArgA].content) = Len(fs[ArgB].content)
      /\ (engine.file_a_checksum # None \/ engine.file_b_checksum # None) )
    => LET checksum_a == ChecksumUsed(ArgA, engine.file_a_checksum)
           checksum_b == ChecksumUsed(ArgB, engine.file_b_checksum)
       IN  /\ engine.exc = "none"
           /\ engine.a_iter = 0
           /\ engine.b_iter = 0
           /\ engine.hashed = SelectSeq(<<ArgA, ArgB>>,
                                        LAMBDA p : IF p = ArgA
                                                   THEN engine.file_a_checksum = None
                                                   ELSE engine.file_b_checksum = None)
           /\ engine.value = IF checksum_a = checksum_b THEN checksum_b ELSE NoMatch

\* C20 happens: the checksum of file a was supplied, file b alone was hashed
\* and the two matched
C20_Witness ==
    /\ CompareReturned
    /\ ArgA # ArgB
    /\ Regular(ArgA) /\ Regular(ArgB)
    /\ fs[ArgA].content # <<>>
    /\ engine.file_a_checksum # None
    /\ engine.file_b_checksum = None
    /\ engine.hashed = <<ArgB>>
    /\ engine.value = engine.file_a_checksum

\* the canonical index and its seven sub-indices
Index == session.canonical

SubIndices ==
    <<Index.by_size, Index.by_name, Index.by_type, Index.by_parent, Index.by_rel_path,
      Index.by_ctime, Index.by_mtime>>

\* the paths that sub-index d holds, and the keys under which it holds p
PathsOf(d) == UNION {d[k] : k \in DOMAIN d}

KeysOf(d, p) == {k \in DOMAIN d : p \in d[k]}

IndexedPaths == PathsOf(Index.by_size)

QueryReturned == ret.op = "get_intersection"

NoOptional(q) ==
    /\ ~q.name.given /\ ~q.file_type.given /\ ~q.parent.given
    /\ ~q.rel_path.given /\ ~q.ctime.given /\ ~q.mtime.given

\* C21: get_intersection(size=S) with no optional attribute supplied returns
\* exactly the indexed paths whose size, as recorded at their last addition,
\* is S, whatever additions were made before.
C21_SizeQueryExact ==
    (QueryReturned /\ NoOptional(ret.args))
    => ret.value = {p \in IndexedPaths : Index.files[p].size = ret.args.size}

\* the optional arguments of query q, each with its sub-index
OptionalOf(q) ==
    <<[d |-> Index.by_name, a |-> q.name], [d |-> Index.by_type, a |-> q.file_type],
      [d |-> Index.by_parent, a |-> q.parent], [d |-> Index.by_rel_path, a |-> q.rel_path],
      [d |-> Index.by_ctime, a |-> q.ctime], [d |-> Index.by_mtime, a |-> q.mtime]>>

\* a supplied optional value of the query returned is not a key of its sub-index
SuppliedValueAbsent ==
    \E i \in 1..6 : LET o == OptionalOf(ret.args)[i]
                     IN  o.a.given /\ o.a.v \notin DOMAIN o.d

\* p is held under every supplied optional value of the query returned
MatchesSupplied(p) ==
    \A i \in 1..6 : LET o == OptionalOf(ret.args)[i]
                     IN  o.a.given => (o.a.v \in DOMAIN o.d /\ p \in o.d[o.a.v])

\* C22: get_intersection returns the empty set when a supplied optional value
\* is not a key of its sub-index, and otherwise exactly the paths held under
\* the size and under every supplied value.
C22_SuppliedAttributesFilter ==
    QueryReturned =>
        ret.value =
            IF SuppliedValueAbsent
            THEN {}
            ELSE {p \in IndexedPaths :
                    ret.args.size \in KeysOf(Index.by_size, p) /\ MatchesSupplied(p)}

\* C23: after any additions every indexed path is held under exactly one key
\* of each of the seven sub-indices, and the seven hold the same paths.
C23_OneKeyPerSubIndex ==
    \A i \in DOMAIN SubIndices :
        /\ PathsOf(SubIndices[i]) = IndexedPaths
        /\ \A p \in IndexedPaths : Cardinality(KeysOf(SubIndices[i], p)) = 1

\* a comparison pass has been driven to its end (or to its exception)
CompareDone == ret.op = "do_compare"

CanonRecs == session.canonical.files

QueryRecs == session.query.files

\* the canonical paths recorded as duplicates of query path q
Dups(q) ==
    IF q \in DOMAIN session.duplicates
    THEN {session.duplicates[q][i] : i \in DOMAIN session.duplicates[q]}
    ELSE {}

\* the canonical files of the size of q, and those that have its name too
SizeCandidates(q) == {c \in DOMAIN CanonRecs : CanonRecs[c].size = QueryRecs[q].size}

NameCandidates(q) == {c \in SizeCandidates(q) : CanonRecs[c].name = QueryRecs[q].name}

PassCandidates(q) == IF ret.args.name THEN NameCandidates(q) ELSE SizeCandidates(q)

\* the calls of compare_files made by the pass
Calls == {<<ret.value[i][1], ret.value[i][2]>> : i \in DOMAIN ret.value}

C25_SelfMatchSkipped ==
    (CompareDone /\ ret.exc = "none")
    => \A q \in DOMAIN QueryRecs :
         /\ q \notin Dups(q)
         /\ q \in PassCandidates(q) => q \in session.skipped_self
         /\ Dups(q) = {} => (q \in session.unique <=> PassCandidates(q) # {q})

C25_Witness ==
    /\ CompareDone /\ ret.exc = "none"
    /\ CA \in DOMAIN QueryRecs
    /\ PassCandidates(CA) = {CA}
    /\ CA \in session.skipped_self
    /\ CA \notin session.unique
    /\ CA \notin DOMAIN session.duplicates

\* C26: with skip_checksum and without name the pass fails with an
\* AssertionError and classifies nothing; with both, every candidate of the
\* size and name of a query path other than itself is recorded as its
\* duplicate, compare_files is never called and the cache stays empty.
C26_SkipChecksumReadsNothing ==
    (CompareDone /\ ret.args.skip_checksum)
    => IF ~ret.args.name
       THEN /\ ret.exc = "AssertionError"
            /\ session.duplicates = EmptyMap
            /\ session.unique = {}
            /\ session.skipped_self = {}
       ELSE /\ ret.exc = "none"
            /\ Calls = {}
            /\ session.checksum = EmptyMap
            /\ \A q \in DOMAIN QueryRecs : Dups(q) = NameCandidates(q) \ {q}

\* a file of other bytes recorded as a duplicate on its size and name alone
C26_Witness ==
    /\ CompareDone /\ ret.args.skip_checksum /\ ret.args.name
    /\ fs[QA].content = World /\ fs[CA].content = Hello
    /\ Dups(QA) = {CA}
    /\ session.checksum = EmptyMap

\* C27: when a call of compare_files in the pass fails because the query file
\* or the candidate has vanished or is now a directory or a symbolic link,
\* that query path is in source_error_files and that candidate in
\* possible_match_error_files.
C27_ChangedFilesRecorded ==
    CompareDone =>
        \A call \in Calls :
            /\ Invalid(call[1]) => call[1] \in session.source_error_files
            /\ Invalid(call[2]) => call[2] \in session.possible_match_error_files

\* C28: a failing candidate ends neither the record nor the pass: every
\* candidate of every query record is compared, each match among them is
\* recorded, and every record without a match is classified.
C28_FailureNotFatal ==
    (CompareDone /\ ret.args = DefaultFlags)
    => /\ ret.exc = "none"
       /\ \A q \in DOMAIN QueryRecs :
            /\ \A c \in SizeCandidates(q) \ {q} :
                 /\ <<q, c>> \in Calls
                 /\ (Regular(q) /\ Regular(c) /\ fs[q].content = fs[c].content)
                       => c \in Dups(q)
            /\ (Dups(q) = {} /\ SizeCandidates(q) # {q}) => q \in session.unique

\* a call that failed, and after it a match of the same record and one of a
\* later record
C28_Witness ==
    /\ CompareDone /\ ret.args = DefaultFlags
    /\ \E i, j, k \in DOMAIN ret.value :
         /\ i < j /\ j < k
         /\ ~CompareFilesValid(fs, ret.value[i][1], ret.value[i][2])
         /\ ret.value[j][1] = ret.value[i][1]
         /\ ret.value[j][2] \in Dups(ret.value[j][1])
         /\ ret.value[k][1] # ret.value[i][1]
         /\ ret.value[k][2] \in Dups(ret.value[k][1])

\* path p holds the same in f and g, or is missing in both
SameEntry(f, g, p) ==
    /\ (p \in DOMAIN f) = (p \in DOMAIN g)
    /\ p \in DOMAIN f => f[p] = g[p]

\* the regular files that the step writes
StepCopies ==
    {p \in DOMAIN fs' : fs'[p].kind = "file" /\ ~(p \in DOMAIN fs /\ fs[p] = fs'[p])}

\* C29: with do_verified_copy set, a step of the batch whose copy has another
\* digest than its source raises the verification error (IOError); and a step
\* that raises it creates no link at the destination and registers nothing in
\* the canonical index.
C29_VerificationErrorStopsCopy ==
    [][ (pc = "running" /\ verify /\ ~copydescriptors[idx].link_in_place)
        => /\ (\E p \in StepCopies :
                  md5_hash(fs'[p].content)
                    # md5_hash(ReadFile(fs, copydescriptors[idx].source_p)))
                => (pc' = "raised" /\ ret'.exc = "IOError")
           /\ ret'.exc = "IOError"
                => /\ SameEntry(fs, fs', DestP(idx))
                   /\ session'.canonical = session.canonical
                   /\ output' = output ]_vars

\* a verified copy came out wrong: the call raised, the destination is
\* missing and the wrong copy is not indexed
C29_Witness ==
    /\ BatchCalled /\ pc = "raised" /\ ret.exc = "IOError" /\ verify
    /\ DestP(idx) \notin DOMAIN fs
    /\ \E p \in WrittenFiles :
         /\ fs[p].content # ReadFile(fs, copydescriptors[idx].source_p)
         /\ p \notin DOMAIN session.canonical.files

\* C30: the copydescriptors are processed in list order; a step that raises
\* leaves the destinations and the data files of the copydescriptors before
\* it, and the output, as they were, and after it nothing more is written.
C30_EarlierProductsKept ==
    [][ /\ (pc = "running" /\ pc' # "raised") => idx' = idx + 1
        /\ (pc = "running" /\ pc' = "raised")
             => /\ idx' = idx
                /\ output' = output
                /\ \A j \in 1..(idx - 1) :
                     /\ SameEntry(fs, fs', DestP(j))
                     /\ copydescriptors[j].source_p \in DOMAIN output
                          => SameEntry(fs, fs', output[copydescriptors[j].source_p])
        /\ pc = "raised" => fs' = fs ]_vars

\* the second copydescriptor failed verification after the first was copied
\* and linked
C30_Witness ==
    /\ BatchCalled /\ pc = "raised" /\ ret.exc = "IOError"
    /\ idx = 2
    /\ ~copydescriptors[1].link_in_place
    /\ islink(fs, DestP(1))
    /\ copydescriptors[1].source_p \in DOMAIN output
    /\ output[copydescriptors[1].source_p] \in DataFiles(fs)

\* the candidates by size alone that index holds for size n
BySize(index, n) == get_intersection(index, n, NoArg, NoArg, NoArg, NoArg, NoArg, NoArg)

\* the step copies the source of the copydescriptor at idx into a new file
\* and returns
CopiedAndReturned ==
    /\ pc = "running" /\ pc' # "raised"
    /\ ~copydescriptors[idx].link_in_place
    /\ output'[copydescriptors[idx].source_p] \notin DOMAIN fs

\* C31: when a step of the batch has copied a source into a new physical
\* file and returned, that file is in the canonical index of the session and
\* is a candidate for its size; and no step of the batch takes a candidate
\* out of the index, so it is one for every later copydescriptor.
C31_CopyRegisteredAtOnce ==
    [][ /\ CopiedAndReturned
          => LET data_file_p == output'[copydescriptors[idx].source_p]
             IN  /\ data_file_p \in DOMAIN session'.canonical.files
                 /\ data_file_p \in BySize(session'.canonical, st_size(fs', data_file_p))
        /\ pc = "running"
          => \A n \in 0..MaxLen :
               BySize(session.canonical, n) \subseteq BySize(session'.canonical, n) ]_vars

\* a copy is indexed while the next copydescriptor is still to be processed
C31_Witness ==
    /\ BatchCalled /\ pc = "running" /\ idx = 2
    /\ ~copydescriptors[1].link_in_place
    /\ copydescriptors[1].source_p \in DOMAIN output
    /\ output[copydescriptors[1].source_p] \in DataFiles(fs) \ DOMAIN fs0
    /\ output[copydescriptors[1].source_p]
          \in BySize(session.canonical, Len(fs[output[copydescriptors[1].source_p]].content))

VerifiedCopyReturned == engine.op = "verified_copy_file" /\ engine.pc = "done"

\* C38: verified_copy_file(src, dst) whose dst holds the very bytes of src,
\* of any length, none included, returns without raising.
C38_FaithfulCopyVerifies ==
    ( /\ VerifiedCopyReturned
      /\ Regular(ArgA) /\ Regular(ArgB)
      /\ fs[ArgB].content = fs[ArgA].content )
    => engine.exc = "none"

\* dest lies in the directory tree of data_d: it is data_d or a path below it
InsideDir(p, q) == p = q \/ IsDescendant(p, q)

\* the call's dest_d and every destination of the list lie outside data_d,
\* and every source is a file
OutsideDataDir ==
    /\ ~InsideDir(dest_d, DataD)
    /\ \A i \in 1..Len(copydescriptors) :
         /\ ~InsideDir(dest_d \o copydescriptors[i].dest_relative_p, DataD)
         /\ ~BadSource(fs0, copydescriptors[i])

\* C36: copy_files_deduplicated refuses dest_d only when it lies inside
\* data_d: a dest_d outside data_d whose string merely begins with the string
\* of data_d passes the precondition, no ValueError is raised for it.
C36_SiblingDestAccepted ==
    (BatchCalled /\ OutsideDataDir)
    => ~(pc = "raised" /\ ret.exc = "ValueError")

\* the caller's copy_file_deduplicated call has ended, on a source that is a
\* file and a destination the call accepts
DirectCopyDone ==
    /\ ret.op = "copy_file_deduplicated"
    /\ isfile(fs0, copydescriptors[1].source_p)
    /\ ~StartsWith(copydescriptors[1].dest_relative_p, DataD)

\* C39: whether copy_file_deduplicated copies or reuses depends only on the
\* source's own recorded duplicates: a source with no recorded match is
\* copied to a new file and the call does not fail for want of a match,
\* whatever the session has recorded for other sources.
C39_DecisionFromOwnSource ==
    (DirectCopyDone /\ copydescriptors[1].source_p \notin DOMAIN session.duplicates)
    => /\ ret.exc # "KeyError"
       /\ ret.exc = "none" => ret.value \notin DOMAIN fs0

\* one run from the present state: do_compare driven to the end with the
\* candidate sets iterated in the order ord, then copy_file_deduplicated
CompareThenCopy(ord, source_p, dest_p) ==
    copy_file_deduplicated(fs, do_compare(session, fs, ord), source_p, dest_p, DataD, verify)

\* C35: two runs of compare and copy_file_deduplicated from one filesystem
\* state and one session, with the same source and destination, resolve to
\* the same physical path, whatever the order the candidate set is iterated in.
C35_FirstMatchDeterministic ==
    (passes = 0 /\ pc = "idle")
    => \A o1, o2 \in Enumerations(DOMAIN session.canonical.files) :
         \A source_p \in DirectSources, dest_p \in DirectDestPaths :
            LET r1 == CompareThenCopy(o1, source_p, dest_p)
                r2 == CompareThenCopy(o2, source_p, dest_p)
            IN  (r1.exc = "none" /\ r2.exc = "none") => r1.value = r2.value

\* no element of the sequence occurs in it twice
NoRepeats(q) == \A i, j \in 1..Len(q) : q[i] = q[j] => i = j

\* C37: after any completed passes on one session no query path is both in
\* unique and a key of duplicates, and no canonical path occurs twice in the
\* duplicates list of a query path.
C37_ResultsStayConsistent ==
    (CompareDone /\ ret.exc = "none")
    => /\ session.unique \cap DOMAIN session.duplicates = {}
       /\ \A q \in DOMAIN session.duplicates : NoRepeats(session.duplicates[q])

\* a step in which the caller pulls do_compare up to a count and drops it
Abandons == pc = "idle" /\ ret'.op = "do_compare_abandoned"

\* the query records before place n, and those from place n on
Before(order, n) == {order[i] : i \in 1..(n - 1)}

FromOn(order, n) == {order[i] : i \in n..Len(order)}

\* C32: a do_compare pass abandoned after it has yielded count n has
\* classified the query records 1..n-1; record n and the later ones are in
\* none of duplicates, unique, skipped_self and the error sets and no
\* compare_files call (hence no cache entry) was made for them; the canonical
\* and the query index are as before the pass.
C32_AbandonedPassIsPartial ==
    [][ Abandons =>
          LET order == session.query.order
              n == ret'.count
          IN  /\ session'.canonical = session.canonical
              /\ session'.query = session.query
              /\ \A q \in Before(order, n) :
                    q \in DOMAIN session'.duplicates \cup session'.unique
                             \cup session'.skipped_self
              /\ \A q \in FromOn(order, n) :
                    /\ q \notin DOMAIN session'.duplicates
                    /\ q \notin session'.unique
                    /\ q \notin session'.skipped_self
                    /\ q \notin session'.source_error_files
              /\ \A i \in DOMAIN ret'.value : ret'.value[i][1] \in Before(order, n)
              /\ DOMAIN session'.checksum \subseteq
                    {ret'.value[i][2] : i \in DOMAIN ret'.value}
              /\ session'.possible_match_error_files \subseteq
                    {ret'.value[i][2] : i \in DOMAIN ret'.value} ]_vars

\* C32 happens: the pass was dropped at count 2 of 2, the first record has its
\* duplicate and the second, a copy of a canonical file too, has nothing
C32_Witness ==
    /\ ret.op = "do_compare_abandoned"
    /\ ret.count = 2
    /\ session.query.order = <<QA, QC>>
    /\ fs[QA].content = Hello /\ fs[QC].content = Hello /\ fs[CA].content = Hello
    /\ session.duplicates = (QA :> <<CA>>)
    /\ session.unique = {}
    /\ DOMAIN session.checksum = {CA}

\* the canonical files that a pass with the flags of the call is to compare
\* query record q with: those of its size that agree with q in every
\* attribute whose flag is set
FlaggedCandidates(q) ==
    {c \in SizeCandidates(q) :
        /\ ret.args.name => CanonRecs[c].name = QueryRecs[q].name
        /\ ret.args.file_type => CanonRecs[c].file_type = QueryRecs[q].file_type
        /\ ret.args.parent => CanonRecs[c].parent = QueryRecs[q].parent
        /\ ret.args.rel_path => CanonRecs[c].rel_path = QueryRecs[q].rel_path
        /\ ret.args.ctime => CanonRecs[c].ctime = QueryRecs[q].ctime
        /\ ret.args.mtime => CanonRecs[c].mtime = QueryRecs[q].mtime}

\* C33: in one pass every query record is compared with exactly the
\* candidates of its size that agree with it in each attribute enabled in the
\* call, the record's own value being used even when it is empty or an
\* earlier record's value was empty.
C33_FlagsApplyToEveryRecord ==
    (CompareDone /\ ret.exc = "none" /\ ~ret.args.skip_checksum)
    => \A q \in DOMAIN QueryRecs :
         {c \in DOMAIN CanonRecs : <<q, c>> \in Calls} = FlaggedCandidates(q) \ {q}

\* the calls of compare_files of the pass in their order, each with the
\* file_b_checksum passed
CallLog == ret.value

\* the candidate of call i was matched by an earlier call of the pass
MatchedBefore(i) ==
    \E j \in 1..(i - 1) :
       /\ CallLog[j][2] = CallLog[i][2]
       /\ CallLog[j][2] \in Dups(CallLog[j][1])

\* C34: in a pass without skip_checksum the cache holds exactly the
\* candidates that were matched, each with the digest of its full content,
\* and a call against a candidate matched before passes the cached digest as
\* file_b_checksum, any other call passes none.
C34_CacheHoldsMatchedCandidates ==
    (CompareDone /\ ret.exc = "none" /\ ~ret.args.skip_checksum)
    => /\ DOMAIN session.checksum = UNION {Dups(q) : q \in DOMAIN QueryRecs}
       /\ \A c \in DOMAIN session.checksum :
            session.checksum[c] = md5_hash(fs[c].content)
       /\ \A i \in DOMAIN CallLog :
            CallLog[i][3] = IF MatchedBefore(i)
                            THEN md5_hash(fs[CallLog[i][2]].content)
                            ELSE None

\* C34 happens: a candidate matched by the first record is compared with the
\* second under its cached digest, and a call that found no match left no entry
C34_Witness ==
    /\ CompareDone /\ ret.args = DefaultFlags
    /\ \E i, j \in DOMAIN CallLog :
         /\ i < j
         /\ CallLog[i][2] = CallLog[j][2]
         /\ CallLog[j][3] # None
         /\ CallLog[j][2] \in Dups(CallLog[j][1])
    /\ \E k \in DOMAIN CallLog : CallLog[k][2] \notin DOMAIN session.checksum

====
